---- MODULE Spec2Model ----
(***************************************************************************)
(* RenameMedia (Rename.py, tmdb_api.py): identification of media items     *)
(* against the catalog and the renaming of their files.                    *)
(*                                                                         *)
(* Python strings are TLA+ strings; characters are read with SubSeq.       *)
(* Python's None is the string NoneV, a missing dictionary key is Absent.  *)
(* The code points of __remove_unicode cannot be written in a TLA+ string; *)
(* each is written as one ASCII character that occurs nowhere else in the  *)
(* names of the model:  ~ is U+2013,  @ is U+2019,  ^ & % # are            *)
(* U+00F9 U+00FA U+00FB U+00FC.                                            *)
(***************************************************************************)
EXTENDS Integers, Sequences, FiniteSets, TLC

VARIABLES
    \* ---- the process (Rename.py __main__) ----
    mpc,        \* position of __main__
    api_key,    \* TMDB.api_key
    items,      \* the list items of __main__
    objects,    \* the list objects of __main__ (finished IdentifyMedia objects)
    oi,         \* index of the object the second pass is at
    args,       \* the command line: name, year, type, debug
    catalog,    \* the answers the catalog can give to a search
    \* ---- the IdentifyMedia object being worked on ----
    ident,      \* its fields: item, id, name, year, type, identity, results, potential, debug
    ipc,        \* position inside identify() / enquire() / confirm_identity()
    iloc,       \* locals of the running methods
    ilog,       \* what the object has done with the user and the catalog
    \* ---- the RenameMedia object and the file system ----
    validate,   \* RenameMedia.validate
    fs,         \* the file system: [dirs, files], sets of absolute paths
    fs0,        \* the file system when the run started
    rpc,        \* position inside show() / movie()
    rloc,       \* locals of the running method
    rlog        \* what the object has done with the file system and the catalog

vars == <<mpc, api_key, items, objects, oi, args, catalog, ident, ipc, iloc, ilog,
          validate, fs, fs0, rpc, rloc, rlog>>

mainVars  == <<mpc, api_key, items, objects, oi, args, catalog>>
identVars == <<ident, ipc, iloc, ilog>>
renameVars == <<validate, fs, fs0, rpc, rloc, rlog>>

\* None where a string may stand, where a record may stand, where an integer may stand
NoneV   == "<None>"
NoneR   == [none |-> TRUE]
NoneInt == 0 - 1000
Absent  == "<absent>"

-----------------------------------------------------------------------------
(* Strings *)

Char(s, i) == SubSeq(s, i, i)

Digits == {"0", "1", "2", "3", "4", "5", "6", "7", "8", "9"}

IsDigit(c) == c \in Digits

DigitVal(c) ==
    CASE c = "0" -> 0 [] c = "1" -> 1 [] c = "2" -> 2 [] c = "3" -> 3
      [] c = "4" -> 4 [] c = "5" -> 5 [] c = "6" -> 6 [] c = "7" -> 7
      [] c = "8" -> 8 [] c = "9" -> 9

\* int() of a string of digits
RECURSIVE ParseInt(_)
ParseInt(s) ==
    IF Len(s) = 0 THEN 0
    ELSE 10 * ParseInt(SubSeq(s, 1, Len(s) - 1)) + DigitVal(Char(s, Len(s)))

AllDigits(s) == \A i \in 1..Len(s) : IsDigit(Char(s, i))

StartsWithAt(s, i, t) == i >= 1 /\ i + Len(t) - 1 <= Len(s) /\ SubSeq(s, i, i + Len(t) - 1) = t

EndsWith(s, t) == Len(t) <= Len(s) /\ SubSeq(s, Len(s) - Len(t) + 1, Len(s)) = t

\* t in s
Contains(s, t) == \E i \in 1..(Len(s) + 1) : StartsWithAt(s, i, t)

\* s.replace(c, r) for a one-character c
RECURSIVE Replace(_, _, _)
Replace(s, c, r) ==
    IF Len(s) = 0 THEN ""
    ELSE (IF Char(s, 1) = c THEN r ELSE Char(s, 1)) \o Replace(SubSeq(s, 2, Len(s)), c, r)

\* the positions of c in s
Positions(s, c) == {i \in 1..Len(s) : Char(s, i) = c}

Max(S) == CHOOSE x \in S : \A y \in S : y <= x
Min(S) == CHOOSE x \in S : \A y \in S : x <= y

\* s.split(c)[-1]
SplitLast(s, c) ==
    IF Positions(s, c) = {} THEN s ELSE SubSeq(s, Max(Positions(s, c)) + 1, Len(s))

\* c.join(s.split(c)[:-1])
SplitInit(s, c) ==
    IF Positions(s, c) = {} THEN "" ELSE SubSeq(s, 1, Max(Positions(s, c)) - 1)

-----------------------------------------------------------------------------
(* Paths (os.path, pathlib on the forms the program builds) *)

Sep == "/"

RECURSIVE RStripSep(_)
RStripSep(p) == IF Len(p) > 0 /\ EndsWith(p, Sep) THEN RStripSep(SubSeq(p, 1, Len(p) - 1)) ELSE p

\* the path without trailing separators (the root stays the root)
Norm(p) == IF RStripSep(p) = "" /\ Len(p) > 0 THEN Sep ELSE RStripSep(p)

\* os.path.basename
Basename(p) == SplitLast(p, Sep)

\* os.path.dirname
Dirname(p) ==
    IF Positions(p, Sep) = {} THEN ""
    ELSE LET head == SubSeq(p, 1, Max(Positions(p, Sep)))
         IN  IF RStripSep(head) = "" THEN head ELSE RStripSep(head)

\* os.path.join(a, b)
Join(a, b) ==
    IF StartsWithAt(b, 1, Sep) THEN b
    ELSE IF a = "" \/ EndsWith(a, Sep) THEN a \o b
    ELSE a \o Sep \o b

\* str(Path(*Path(folder).parts[:-1]))
PathParent(folder) == LET d == Dirname(Norm(folder)) IN IF d = "" THEN "." ELSE d

-----------------------------------------------------------------------------
(* RenameMedia: the pure helpers *)

INVALID_EXTENSIONS == {"dat", "inf", "pdx", "txt"}

RESOLUTIONS == {"720p", "1080p", "2160p"}

convert_int_to_str(number) ==
    IF number < 10 THEN "0" \o ToString(number) ELSE ToString(number)

\* the replacement table of __remove_unicode, in order
UnicodeReplacements ==
    << <<"~", "-">>, <<"@", "'">>, <<"^", "u">>, <<"^", "u">>,
       <<"&", "u">>, <<"%", "u">>, <<"#", "u">> >>

RECURSIVE ApplyReplacements(_, _)
ApplyReplacements(text, table) ==
    IF table = <<>> THEN text
    ELSE ApplyReplacements(Replace(text, Head(table)[1], Head(table)[2]), Tail(table))

remove_unicode(text) == ApplyReplacements(text, UnicodeReplacements)

\* the dict invalid_characters, in insertion order
InvalidCharacters ==
    << <<"<", "">>, <<">", "">>, <<":", " -">>, <<"\"", "">>, <<"/", "">>,
       <<"\\", "">>, <<"|", "">>, <<"?", ".">>, <<"*", "">> >>

invalid_filenames ==
    {"AUX", "COM1", "COM2", "COM3", "COM4", "COM5", "COM6", "COM7", "COM8", "COM9", "CON",
     "LPT1", "LPT2", "LPT3", "LPT4", "LPT5", "LPT6", "LPT7", "LPT8", "LPT9", "NUL", "PRN"}

\* lines 94-97 without the case of the ? after dots: every character is
\* replaced by what the dict gives
SanitizeCharacter_NoSpecialCase(name, entry) == Replace(name, entry[1], entry[2])

\* what the loop body of remove_invalid_characters does for one character
SanitizeCharacter(name, entry) ==
    IF entry[1] # "?" \/ (entry[1] = "?" /\ ~Contains(name, ".?"))
    THEN Replace(name, entry[1], entry[2])
    ELSE Replace(name, entry[1], "")

RECURSIVE SanitizeLoop(_, _)
SanitizeLoop(name, table) ==
    IF table = <<>> THEN name
    ELSE SanitizeLoop(SanitizeCharacter(name, Head(table)), Tail(table))

\* lines 93-97 without lines 99-100: no dot is put after a device name
remove_invalid_characters_NoDeviceNames(name) == SanitizeLoop(name, InvalidCharacters)

remove_invalid_characters(name) ==
    LET n == SanitizeLoop(name, InvalidCharacters)
    IN  IF n \in invalid_filenames THEN n \o "." ELSE n

\* re.search(RESOLUTIONS, text): the leftmost match, or NoneV
SearchResolution(text) ==
    LET hits == {i \in 1..Len(text) : \E r \in RESOLUTIONS : StartsWithAt(text, i, r)}
    IN  IF hits = {} THEN NoneV
        ELSE CHOOSE r \in RESOLUTIONS : StartsWithAt(text, Min(hits), r)

\* __get_resolution(item, folder)
get_resolution(item, folder) ==
    LET first  == SearchResolution(item)
        second == IF first = NoneV THEN SearchResolution(Basename(Dirname(folder))) ELSE first
    IN  IF second = NoneV THEN "" ELSE " [" \o second \o "]"

\* re.search(r"([sS](\d{2})[eE](\d{2}))", text): <<season, episode>> of the leftmost match, or NoneV
SeasonEpisodeAt(text, i) ==
    /\ i + 5 <= Len(text)
    /\ Char(text, i) \in {"s", "S"}
    /\ IsDigit(Char(text, i + 1)) /\ IsDigit(Char(text, i + 2))
    /\ Char(text, i + 3) \in {"e", "E"}
    /\ IsDigit(Char(text, i + 4)) /\ IsDigit(Char(text, i + 5))

SearchSeasonEpisode(text) ==
    LET hits == {i \in 1..Len(text) : SeasonEpisodeAt(text, i)}
    IN  IF hits = {} THEN NoneV
        ELSE LET i == Min(hits)
             IN  <<ParseInt(SubSeq(text, i + 1, i + 2)), ParseInt(SubSeq(text, i + 4, i + 5))>>

\* extension = file.split(".")[-1]
Extension(file) == SplitLast(file, ".")

\* re.sub(fr"\.{extension}$", "", file)
StripExtension(file) ==
    LET suffix == "." \o Extension(file)
    IN  IF EndsWith(file, suffix) THEN SubSeq(file, 1, Len(file) - Len(suffix)) ELSE file

-----------------------------------------------------------------------------
(* The file system the program works on (os.path.exists, os.path.isdir,    *)
(* os.listdir, os.rename, os.mkdir, os.makedirs).  A file system is        *)
(* [dirs, files]: the absolute paths of its directories and of its files.  *)

Entries(f) == f.dirs \cup f.files

HasTrailingSep(p) == Len(p) > 1 /\ EndsWith(p, Sep)

\* os.path.exists(p)
FsExists(f, p) == IF HasTrailingSep(p) THEN Norm(p) \in f.dirs ELSE p \in Entries(f)

\* os.path.isdir(p)
FsIsDir(f, p) == Norm(p) \in f.dirs

\* os.path.isfile(p)
FsIsFile(f, p) == ~HasTrailingSep(p) /\ p \in f.files

\* the names os.listdir(p) returns (in an order the platform chooses)
FsList(f, p) == {Basename(q) : q \in {e \in Entries(f) : e # Norm(p) /\ Dirname(e) = Norm(p)}}

\* q is d or lies below d
Under(q, d) == q = d \/ StartsWithAt(q, 1, IF d = Sep THEN d ELSE d \o Sep)

Rebase(q, from, to) == to \o SubSeq(q, Len(from) + 1, Len(q))

\* the file system after the entry src (with what is below it) became dst
FsMoved(f, src, dst) ==
    LET keepD == {q \in f.dirs : ~Under(q, src) /\ ~Under(q, dst)}
        keepF == {q \in f.files : ~Under(q, src) /\ ~Under(q, dst)}
    IN  [dirs  |-> keepD \cup {Rebase(q, src, dst) : q \in {d \in f.dirs : Under(d, src)}},
         files |-> keepF \cup {Rebase(q, src, dst) : q \in {d \in f.files : Under(d, src)}}]

\* The exceptions a move can end with.  FileNotFoundError, FileExistsError,
\* PermissionError and the like are OSError; ValueError (an embedded null
\* character) is neither an OSError nor a UnicodeEncodeError.
MoveErrors == {"UnicodeEncodeError", "OSError", "ValueError"}

\* What os.rename(from, to) can do on f: the set of [fs, exc], exc = "ok" when it
\* succeeded.  Replacing an existing file or empty directory succeeds on linux
\* and is an OSError on win32; any move can also fail for a reason outside the
\* model (permissions, another device, the encoding of the name).
OsRename(f, from, to) ==
    LET src == Norm(from)
        dst == Norm(to)
        fail == {[fs |-> f, exc |-> e] : e \in MoveErrors}
        ok(g) == {[fs |-> g, exc |-> "ok"]}
        legal ==
            IF ~FsExists(f, from) \/ Dirname(dst) \notin f.dirs THEN {}
            ELSE IF src = dst THEN ok(f)
            ELSE IF src \in f.files THEN
                 IF HasTrailingSep(to) \/ dst \in f.dirs THEN {} ELSE ok(FsMoved(f, src, dst))
            ELSE IF dst \in f.files \/ Under(dst, src) THEN {}
            ELSE IF dst \in f.dirs /\ FsList(f, dst) # {} THEN {}
            ELSE ok(FsMoved(f, src, dst))
    IN  legal \cup fail

\* What os.mkdir(p) can do on f
OsMkdir(f, p) ==
    LET d == Norm(p)
    IN  (IF d \in Entries(f) \/ Dirname(d) \notin f.dirs THEN {}
         ELSE {[fs |-> [f EXCEPT !.dirs = @ \cup {d}], exc |-> "ok"]})
        \cup {[fs |-> f, exc |-> "OSError"]}

\* the directories os.makedirs(p) has to create: p and its missing ancestors
RECURSIVE MissingDirs(_, _)
MissingDirs(f, d) ==
    IF d \in f.dirs \/ d = "" \/ d = Sep THEN {} ELSE {d} \cup MissingDirs(f, Dirname(d))

\* What os.makedirs(p) can do on f
OsMakedirs(f, p) ==
    LET d == Norm(p)
        new == MissingDirs(f, d)
    IN  (IF d \in Entries(f) \/ new \cap f.files # {} THEN {}
         ELSE {[fs |-> [f EXCEPT !.dirs = @ \cup new], exc |-> "ok"]})
        \cup {[fs |-> f, exc |-> "OSError"]}

-----------------------------------------------------------------------------
(* RenameMedia: __rename_base_folder, __rename, show, movie *)

\* rlog when nothing has been done yet
NoRenameLog ==
    [mutations  |-> 0,        \* calls of os.rename, os.mkdir, os.makedirs issued
     raised     |-> NoneV,    \* the exception show() / movie() ended with
     raisedAt   |-> NoneV,    \* the call that raised it
     moveFailed |-> FALSE,    \* a move of the running call failed
     rename     |-> NoneR,    \* the last call of __rename: [from, to, exc, raised, logged]
     step       |-> NoneR]    \* the last file step: [file, result, lookup, plan]

NoRenameLocals ==
    [method |-> NoneV, item |-> NoneV, isdir |-> FALSE, id |-> NoneInt, given |-> NoneV,
     name |-> NoneV, year |-> NoneInt, folder |-> NoneV, target |-> NoneV, target_name |-> NoneV,
     files |-> <<>>]

\* the sequences that enumerate the set S
Perms(S) == {p \in [1..Cardinality(S) -> S] : \A i, j \in 1..Cardinality(S) : i # j => p[i] # p[j]}

\* f"{name} ({year})"
MediaFolderName(name, year) == name \o " (" \o ToString(year) \o ")"

\* new_folder_name of __rename_base_folder
NewFolderName(folder, name, year) ==
    Join(PathParent(folder), MediaFolderName(name, year)) \o Sep

\* __rename_base_folder without "and not self.validate"
BaseFolderMoves_IgnoresValidate(f, v, new_folder_name) == ~FsExists(f, new_folder_name)

\* line 38: whether __rename_base_folder moves the folder
BaseFolderMoves(f, v, new_folder_name) == ~FsExists(f, new_folder_name) /\ ~v

\* lines 41-43: the folder __rename_base_folder returns
BaseFolderResult(v, folder, new_folder_name) == IF ~v THEN new_folder_name ELSE folder

\* the exceptions of the model; each is an instance of Exception
Exceptions ==
    {"UnicodeEncodeError", "OSError", "ValueError", "KeyError", "TypeError", "AttributeError",
     "IndexError", "Exception"}

\* the except clauses of __rename: the clause that handles exc, NoneV when none does
RenameHandler(exc) ==
    IF exc = "UnicodeEncodeError" THEN "except UnicodeEncodeError"
    ELSE IF exc = "OSError" THEN "except OSError"
    ELSE IF exc \in Exceptions THEN "except Exception"
    ELSE NoneV

\* the print of an except clause of __rename. Line 52 prints to_location, the
\* text os.rename has just failed to encode: where the standard output has
\* the encoding of the file names, the print raises UnicodeEncodeError too.
PrintOutcomes(exc) ==
    IF exc = "UnicodeEncodeError" THEN {"ok", "UnicodeEncodeError"} ELSE {"ok"}

\* __rename(from_location, to_location) when os.rename and the print of the
\* clause do out: what the caller sees and what is printed
RenameCall(from_location, to_location, out) ==
    LET handler == RenameHandler(out.exc)
    IN  [from   |-> from_location,
         to     |-> remove_unicode(to_location),
         exc    |-> out.exc,
         raised |-> IF out.exc = "ok" THEN NoneV
                    ELSE IF handler = NoneV THEN out.exc
                    ELSE IF out.print # "ok" THEN out.print
                    ELSE NoneV,
         logged |-> IF out.exc = "ok" \/ out.print # "ok" THEN NoneV ELSE handler]

\* the outcomes of the os.rename inside __rename(from_location, to_location)
\* and of the print that follows its failure
RenameOutcomes(f, from_location, to_location) ==
    UNION {{[fs |-> m.fs, exc |-> m.exc, print |-> pr] : pr \in PrintOutcomes(m.exc)} :
              m \in OsRename(f, from_location, remove_unicode(to_location))}

\* show(): the list files of a directory item, in the orders os.listdir allows
RECURSIVE ShowFilesFrom(_, _, _)
ShowFilesFrom(f, folder, names) ==
    IF names = <<>> THEN {<<>>}
    ELSE LET n == Head(names)
             path == Join(folder, n)
             heads == IF FsIsFile(f, path) THEN {<<n>>}
                      ELSE IF FsIsDir(f, path)
                      THEN {[i \in 1..Len(p) |-> Join(n, p[i])] : p \in Perms(FsList(f, path))}
                      ELSE {<<>>}
         IN  {h \o t : h \in heads, t \in ShowFilesFrom(f, folder, Tail(names))}

ShowFileLists(f, folder) ==
    UNION {ShowFilesFrom(f, folder, order) : order \in Perms(FsList(f, folder))}

\* lines 128, 173, 176, 212, 226, 232: the guard "if not self.validate"
Mutates(v) == ~v

\* What one stretch of show() / movie() did: the file system it left, the
\* mutating calls it issued, its call of __rename (NoneR: none), the move
\* that failed outside __rename, the exception it ended with and where, and
\* what it planned for the file it was at.
Outcome(f, n, r, moveFailed, exc, at, step) ==
    [fs |-> f, n |-> n, rename |-> r, moveFailed |-> moveFailed, exc |-> exc, at |-> at,
     step |-> step]

\* the exception __rename handed to its caller
Propagated(r) == IF r = NoneR THEN NoneV ELSE r.raised

\* __rename_base_folder(folder, name, year): the set of
\* [fs, folder, media_folder_name, rename]
rename_base_folder(f, v, folder, name, year) ==
    LET media_folder_name == MediaFolderName(name, year)
        new_folder_name   == NewFolderName(folder, name, year)
    IN  IF BaseFolderMoves(f, v, new_folder_name)
        THEN {[fs |-> out.fs,
               folder |-> BaseFolderResult(v, folder, new_folder_name),
               media_folder_name |-> media_folder_name,
               rename |-> RenameCall(folder, new_folder_name, out)] :
                 out \in RenameOutcomes(f, folder, new_folder_name)}
        ELSE {[fs |-> f,
               folder |-> BaseFolderResult(v, folder, new_folder_name),
               media_folder_name |-> media_folder_name,
               rename |-> NoneR]}

\* the answers of tmdb.get_tv_season: a season record or an error envelope
SeasonAnswers ==
    {[kind |-> "ok", air_date |-> "2019-03-04", episodes |-> <<"Pilot">>],
     [kind |-> "ok", air_date |-> "2021-01-09", episodes |-> <<"Pilot", "Why?">>],
     [kind |-> "ok", air_date |-> NoneV, episodes |-> <<"Pilot">>],
     [kind |-> "error", status_code |-> 404],
     [kind |-> "error", status_code |-> 500]}

\* line 154 without the test: no answer is taken as "season not found"
SeasonNotFound_Never(season_info) == FALSE

\* line 154: 'status_code' in season_info and season_info['status_code'] == 404
SeasonNotFound(season_info) == season_info.kind = "error" /\ season_info.status_code = 404

\* s.split("-")[0]
BeforeDash(t) == IF Positions(t, "-") = {} THEN t ELSE SubSeq(t, 1, Min(Positions(t, "-")) - 1)

\* what a file step records when the file is passed over
Skipped(file, why, info) ==
    [file |-> file, result |-> why, lookup |-> info # NoneR, season_info |-> info, plan |-> NoneR]

\* show(), lines 136-185: the loop body for one file, given the answer of the catalog
ShowFileOutcomes(f, v, loc, file, season_info) ==
    LET extension == Extension(file)
        file_name == StripExtension(file)
        se        == SearchSeasonEpisode(file_name)
        season    == se[1]
        episode   == se[2]
        found     == SearchResolution(file_name)
        resolution == IF found = NoneV THEN "" ELSE " [" \o found \o "]"
        episodes  == season_info.episodes
        season_year == BeforeDash(season_info.air_date)
        \* Python indexing: episodes[episode - 1], where -1 is the last element
        picked    == IF episode = 0 THEN episodes[Len(episodes)] ELSE episodes[episode]
        episode_name == remove_invalid_characters(picked)
        season_name  == remove_invalid_characters(
                            IF season = 0 THEN "Specials" ELSE "Season " \o ToString(season))
        season_folder_name == season_name \o " (" \o season_year \o ")" \o resolution
        new_filename == "S" \o convert_int_to_str(season) \o "E" \o convert_int_to_str(episode)
                            \o " - " \o episode_name \o "." \o extension
        season_folder == Join(loc.target, season_folder_name)
        plan == [folder_name |-> loc.target_name, season_folder_name |-> season_folder_name,
                 resolution |-> resolution, new_filename |-> new_filename]
        step == [file |-> file, result |-> "planned", lookup |-> TRUE,
                 season_info |-> season_info, plan |-> plan]
        makes == ~FsIsDir(f, season_folder) /\ Mutates(v)
        afterMkdir == IF makes THEN OsMakedirs(f, season_folder) ELSE {[fs |-> f, exc |-> "ok"]}
        nMk == IF makes THEN 1 ELSE 0
        first == Join(loc.target, file_name \o "." \o extension)
        to_location == Join(season_folder, new_filename)
        from_location(g) == IF ~FsExists(g, first)
                            THEN Join(loc.folder, file_name \o "." \o extension) ELSE first
    IN  IF extension \in INVALID_EXTENSIONS
        THEN {Outcome(f, 0, NoneR, FALSE, NoneV, NoneV, Skipped(file, "excluded", NoneR))}
        ELSE IF se = NoneV
        THEN {Outcome(f, 0, NoneR, FALSE, NoneV, NoneV, Skipped(file, "no pattern", NoneR))}
        ELSE IF SeasonNotFound(season_info)
        THEN {Outcome(f, 0, NoneR, FALSE, NoneV, NoneV, Skipped(file, "404", season_info))}
        ELSE IF season_info.kind = "error"
        THEN {Outcome(f, 0, NoneR, FALSE, "KeyError", "season_info['air_date']",
                      Skipped(file, "raised", season_info))}
        ELSE IF season_info.air_date = NoneV
        THEN {Outcome(f, 0, NoneR, FALSE, "AttributeError", "season_info['air_date'].split",
                      Skipped(file, "raised", season_info))}
        ELSE IF Len(episodes) < episode
        THEN {Outcome(f, 0, NoneR, FALSE, NoneV, NoneV, Skipped(file, "no episode", season_info))}
        ELSE IF episode = 0 /\ episodes = <<>>
        THEN {Outcome(f, 0, NoneR, FALSE, "IndexError", "season_info['episodes'][episode-1]",
                      Skipped(file, "raised", season_info))}
        ELSE UNION {
               IF mk.exc # "ok"
               THEN {Outcome(mk.fs, nMk, NoneR, FALSE, mk.exc, "os.makedirs in show", step)}
               ELSE IF ~Mutates(v)
               THEN {Outcome(mk.fs, nMk, NoneR, FALSE, NoneV, NoneV, step)}
               ELSE {LET r == RenameCall(from_location(mk.fs), to_location, out)
                     IN  Outcome(out.fs, nMk + 1, r, FALSE, Propagated(r),
                                 "__rename", step) :
                       out \in RenameOutcomes(mk.fs, from_location(mk.fs), to_location)}
               : mk \in afterMkdir}

\* movie(), lines 199-215: the loop body for one entry of the folder
MovieFileOutcomes(f, v, loc, file) ==
    LET extension == Extension(file)
        file_name == StripExtension(file)
        resolution == get_resolution(file_name, loc.folder)
        movie_file_name == loc.target_name \o resolution \o "." \o extension
        plan == [folder_name |-> loc.target_name, season_folder_name |-> NoneV,
                 resolution |-> resolution, new_filename |-> movie_file_name]
        step == [file |-> file, result |-> "planned", lookup |-> FALSE,
                 season_info |-> NoneR, plan |-> plan]
        from_location == Join(loc.folder, file)
        to_location   == Join(loc.folder, movie_file_name)
    IN  IF extension \in INVALID_EXTENSIONS
        THEN {Outcome(f, 0, NoneR, FALSE, NoneV, NoneV, Skipped(file, "excluded", NoneR))}
        ELSE IF ~Mutates(v)
        THEN {Outcome(f, 0, NoneR, FALSE, NoneV, NoneV, step)}
        ELSE {LET r == RenameCall(from_location, to_location, out)
              IN  Outcome(out.fs, 1, r, FALSE, Propagated(r), "__rename", step) :
                out \in RenameOutcomes(f, from_location, to_location)}

\* show(), lines 105-133: up to the loop; the set of <<outcome, locals>>
ShowBeginOutcomes(f, v, item, id, name, year) ==
    LET show_name == remove_invalid_characters(name)
        loc(isdir, folder, target, target_name, files) ==
            [method |-> "show", item |-> item, isdir |-> isdir, id |-> id, given |-> name,
             name |-> show_name,
             year |-> year, folder |-> folder, target |-> target, target_name |-> target_name,
             files |-> files]
        \* the item is a single file
        path             == SplitInit(item, Sep)
        file_name        == SplitLast(item, Sep)
        show_folder_name == MediaFolderName(show_name, year)
        show_folder      == Join(path, show_folder_name)
        fileLoc          == loc(FALSE, show_folder, show_folder, show_folder_name, <<file_name>>)
        makes            == ~FsIsDir(f, show_folder)
        afterMkdir       == IF makes THEN OsMakedirs(f, show_folder) ELSE {[fs |-> f, exc |-> "ok"]}
        nMk              == IF makes THEN 1 ELSE 0
    IN  IF FsIsDir(f, item)
        THEN {<<Outcome(b.fs, IF b.rename = NoneR THEN 0 ELSE 1, b.rename, FALSE,
                        Propagated(b.rename), "__rename", NoneR),
                loc(TRUE, item, b.folder, b.media_folder_name, files)>> :
                  b \in rename_base_folder(f, v, item, show_name, year),
                  files \in ShowFileLists(f, item)}
        ELSE IF ~Mutates(v)
        THEN {<<Outcome(f, 0, NoneR, FALSE, NoneV, NoneV, NoneR), fileLoc>>}
        ELSE UNION {
               IF mk.exc # "ok"
               THEN {<<Outcome(mk.fs, nMk, NoneR, FALSE, mk.exc, "os.makedirs in show", NoneR),
                       fileLoc>>}
               ELSE {<<Outcome(mv.fs, nMk + 1, NoneR, mv.exc # "ok",
                               IF mv.exc = "ok" THEN NoneV ELSE mv.exc, "os.rename in show",
                               NoneR),
                       fileLoc>> :
                       mv \in OsRename(mk.fs, item, Join(show_folder, file_name))}
               : mk \in afterMkdir}

\* line 226 without the test of os.path.exists: the folder is always made
MovieFolderMade_Always(f, v, path) == Mutates(v)

\* line 226: whether movie() makes the folder of a single file
MovieFolderMade(f, v, path) == ~FsExists(f, path) /\ Mutates(v)

\* movie(), lines 191-233: up to the loop for a folder, the whole call for a
\* single file; the set of <<outcome, locals>>
MovieBeginOutcomes(f, v, item, name, year) ==
    LET movie_name == remove_invalid_characters(name)
        loc(isdir, folder, target_name, files) ==
            [method |-> "movie", item |-> item, isdir |-> isdir, id |-> NoneInt, given |-> name,
             name |-> movie_name, year |-> year, folder |-> folder, target |-> folder,
             target_name |-> target_name, files |-> files]
        \* the item is a single file
        base_folder   == Dirname(item)
        original_name == Basename(item)
        extension     == Extension(item)
        resolution    == get_resolution(original_name, "")
        folder_name   == MediaFolderName(movie_name, year)
        new_name      == folder_name \o resolution \o "." \o extension
        path          == Join(base_folder, folder_name)
        fileLoc       == loc(FALSE, path, folder_name, <<>>)
        plan == [folder_name |-> folder_name, season_folder_name |-> NoneV,
                 resolution |-> resolution, new_filename |-> new_name]
        step == [file |-> original_name, result |-> "planned", lookup |-> FALSE,
                 season_info |-> NoneR, plan |-> plan]
        makes         == MovieFolderMade(f, v, path)
        afterMkdir    == IF makes THEN OsMkdir(f, path) ELSE {[fs |-> f, exc |-> "ok"]}
        nMk           == IF makes THEN 1 ELSE 0
        to_location   == Join(path, new_name)
    IN  IF FsIsDir(f, item)
        THEN UNION {
               IF Propagated(b.rename) # NoneV
               THEN {<<Outcome(b.fs, 1, b.rename, FALSE, Propagated(b.rename),
                               "__rename", NoneR),
                       loc(TRUE, b.folder, b.media_folder_name, <<>>)>>}
               ELSE IF ~FsIsDir(b.fs, b.folder)
               THEN {<<Outcome(b.fs, IF b.rename = NoneR THEN 0 ELSE 1, b.rename, FALSE,
                               "OSError", "os.listdir in movie", NoneR),
                       loc(TRUE, b.folder, b.media_folder_name, <<>>)>>}
               ELSE {<<Outcome(b.fs, IF b.rename = NoneR THEN 0 ELSE 1, b.rename, FALSE,
                               NoneV, NoneV, NoneR),
                       loc(TRUE, b.folder, b.media_folder_name, files)>> :
                       files \in Perms(FsList(b.fs, b.folder))}
               : b \in rename_base_folder(f, v, item, movie_name, year)}
        ELSE UNION {
               IF mk.exc # "ok"
               THEN {<<Outcome(mk.fs, nMk, NoneR, FALSE, mk.exc, "os.mkdir in movie", step),
                       fileLoc>>}
               ELSE IF ~Mutates(v)
               THEN {<<Outcome(mk.fs, nMk, NoneR, FALSE, NoneV, NoneV, step), fileLoc>>}
               ELSE {LET r == RenameCall(item, to_location, out)
                     IN  <<Outcome(out.fs, nMk + 1, r, FALSE, Propagated(r),
                                   "__rename", step),
                           fileLoc>> :
                       out \in RenameOutcomes(mk.fs, item, to_location)}
               : mk \in afterMkdir}

\* the state after a stretch of show() / movie() with outcome o
Apply(o, loc, nextpc) ==
    /\ fs' = o.fs
    /\ rloc' = loc
    /\ rpc' = IF o.exc # NoneV THEN "raised" ELSE nextpc
    /\ rlog' = [mutations  |-> rlog.mutations + o.n,
                raised     |-> o.exc,
                raisedAt   |-> IF o.exc = NoneV THEN NoneV ELSE o.at,
                moveFailed |-> \/ rlog.moveFailed
                               \/ o.moveFailed
                               \/ (o.rename # NoneR /\ o.rename.exc # "ok"),
                rename     |-> IF o.rename # NoneR THEN o.rename ELSE rlog.rename,
                step       |-> o.step]
    /\ UNCHANGED <<validate, fs0>>

\* RenameMedia.show(item, id, show_name, year) is called
ShowBegin(item, id, name, year) ==
    \E b \in ShowBeginOutcomes(fs, validate, item, id, name, year) :
        Apply(b[1], b[2], "files")

\* RenameMedia.movie(item, movie_name, year) is called
MovieBegin(item, name, year) ==
    \E b \in MovieBeginOutcomes(fs, validate, item, name, year) :
        Apply(b[1], b[2], IF b[2].isdir THEN "files" ELSE "returned")

\* show(): one turn of "for file in files"
ShowFile ==
    /\ rpc = "files" /\ rloc.method = "show" /\ rloc.files # <<>>
    /\ \E season_info \in SeasonAnswers :
         \E o \in ShowFileOutcomes(fs, validate, rloc, Head(rloc.files), season_info) :
             Apply(o, [rloc EXCEPT !.files = Tail(@)], "files")

\* movie(): one turn of "for file in os.listdir(folder)"
MovieFile ==
    /\ rpc = "files" /\ rloc.method = "movie" /\ rloc.files # <<>>
    /\ \E o \in MovieFileOutcomes(fs, validate, rloc, Head(rloc.files)) :
         Apply(o, [rloc EXCEPT !.files = Tail(@)], "files")

\* the loop of show() / movie() is over: the method returns
RenameReturn ==
    /\ rpc = "files" /\ rloc.files = <<>>
    /\ rpc' = "returned"
    /\ UNCHANGED <<validate, fs, fs0, rloc, rlog>>

-----------------------------------------------------------------------------------------------------------------------------------------------------
(* The catalog: search results *)

\* A record of a search result: a dict with the keys the program reads; a key
\* the dict does not have is Absent.
CatalogRecord(id, media_type, name, title, release_date, first_air_date) ==
    [id |-> id, media_type |-> media_type, name |-> name, title |-> title,
     release_date |-> release_date, first_air_date |-> first_air_date]

Has(result, key) == result[key] # Absent

\* a movie whose year is in the name of the item
MovieA    == CatalogRecord(1, "movie", Absent, "A", "2020-05-17", Absent)
\* a movie with U+00FC in its title
MovieU    == CatalogRecord(2, "movie", Absent, "A#", "1999-12-31", Absent)
ShowB     == CatalogRecord(3, "tv", "B", Absent, Absent, "2019-01-09")
Person    == CatalogRecord(4, "person", "P", Absent, Absent, Absent)
\* a result of search_tv: it has no media_type
PlainShow == CatalogRecord(8, Absent, "B", Absent, Absent, "2020-02-02")
NoTitle   == CatalogRecord(5, "movie", Absent, "", "2001-01-01", Absent)
NoDate    == CatalogRecord(6, "tv", "C", Absent, Absent, "")
DateLess  == CatalogRecord(7, "movie", Absent, "D", Absent, Absent)
NameLess  == CatalogRecord(9, "movie", Absent, Absent, "2020-03-03", Absent)
ShowE     == CatalogRecord(10, "tv", "E", Absent, Absent, "2020-11-30")

\* self.results = [] of the constructor
EmptyList == [kind |-> "list"]

\* the answer of a search: the record with the key results ...
Found(records) == [kind |-> "ok", results |-> records]

\* ... or the error envelope {status_code, response} of TMDB.request
Envelope(code) == [kind |-> "error", status_code |-> code]

\* the sequences over S of length at most n
SeqsUpTo(S, n) == UNION {[1..k -> S] : k \in 0..n}

-----------------------------------------------------------------------------
(* IdentifyMedia: the object and its pure parts *)

SUPPORTED_TYPES == {"movie", "tv"}

\* IdentifyMedia.__init__(tmdb, item, name, year, type, debug)
NewIdentifyMedia(item, name, year, type, debug) ==
    [item |-> item, id |-> NoneInt, name |-> name, year |-> year, type |-> type,
     identity |-> NoneR, results |-> EmptyList, potential |-> <<>>, debug |-> debug]

NoIdentifyLocals ==
    [caller |-> NoneV, attempt |-> 0, name |-> NoneV, results |-> NoneR, index |-> 0]

\* a confirm pass: the list it was given, the object before it, the candidates
\* it asked about (their indices, in the order asked), the valid answers it
\* got (lower-cased, one per candidate asked about), how it ended
NoPass ==
    [potential |-> <<>>, before |-> NoneR, asked |-> <<>>, answers |-> <<>>, end |-> NoneV]

NoIdentifyLog ==
    [searches |-> 0,          \* catalog searches issued by the running identify()
     query    |-> NoneR,      \* the last search: [call, name, year]
     answer   |-> NoneR,      \* the answer of the catalog to it
     notice   |-> NoneV,      \* what the last manual prompt printed about the input
     response |-> NoneV,      \* the last answer of the user
     retry    |-> NoneV,      \* the accepted answer to the question about a retry
     raised   |-> NoneV,      \* the exception identify() ended with
     raisedAt |-> NoneV,
     atCall   |-> NoneR,      \* the object when the running identify() was called
     pass     |-> NoPass]     \* the last confirm pass

\* the pieces of t between the dashes
RECURSIVE SplitDash(_)
SplitDash(t) ==
    IF Positions(t, "-") = {} THEN <<t>>
    ELSE <<SubSeq(t, 1, Min(Positions(t, "-")) - 1)>>
            \o SplitDash(SubSeq(t, Min(Positions(t, "-")) + 1, Len(t)))

\* datetime.strptime(date, '%Y-%M-%d') accepts date: four digits of a year from
\* 1 on, a minute (the format says %M, not %m) and a day of January
StrptimeAccepts(date) ==
    LET parts == SplitDash(date)
    IN  /\ Len(parts) = 3
        /\ Len(parts[1]) = 4 /\ AllDigits(parts[1]) /\ ParseInt(parts[1]) >= 1
        /\ Len(parts[2]) \in {1, 2} /\ AllDigits(parts[2]) /\ ParseInt(parts[2]) <= 59
        /\ Len(parts[3]) \in {1, 2} /\ AllDigits(parts[3])
        /\ ParseInt(parts[3]) \in 1..31

\* datetime.strptime(date, '%Y-%M-%d').year
StrptimeYear(date) == ParseInt(SplitDash(date)[1])

\* lines 416-420: the date __evaluate_results reads the year from, NoneV when
\* the record has none
EvaluateDate(result) ==
    IF Has(result, "release_date") /\ result.release_date # "" THEN result.release_date
    ELSE IF Has(result, "first_air_date") /\ result.first_air_date # "" THEN result.first_air_date
    ELSE NoneV

\* lines 426-429 with insert(0, result) replaced by append(result)
Rank_AppendsOnly(potential, result, year, original_folder_name) ==
    Append(potential, result)

\* lines 426-429: where __evaluate_results puts a record
Rank(potential, result, year, original_folder_name) ==
    IF Contains(original_folder_name, ToString(year))
    THEN <<result>> \o potential
    ELSE Append(potential, result)

\* lines 401-429: one turn of the loop of __evaluate_results, on the list so far
EvaluateOne(potential, result, original_folder_name) ==
    IF ~Has(result, "media_type")
    THEN [potential |-> potential, raised |-> "KeyError", at |-> "result['media_type']"]
    ELSE IF result.media_type \notin SUPPORTED_TYPES
    THEN [potential |-> potential, raised |-> NoneV, at |-> NoneV]
    ELSE IF \/ (Has(result, "name") /\ result.name = "")
            \/ (Has(result, "title") /\ result.title = "")
    THEN [potential |-> potential, raised |-> NoneV, at |-> NoneV]
    ELSE IF \/ (Has(result, "release_date") /\ result.release_date = "")
            \/ (Has(result, "first_air_date") /\ result.first_air_date = "")
    THEN [potential |-> potential, raised |-> NoneV, at |-> NoneV]
    ELSE IF EvaluateDate(result) = NoneV
    THEN [potential |-> potential, raised |-> "TypeError", at |-> "strptime(None) in __evaluate_results"]
    ELSE IF ~StrptimeAccepts(EvaluateDate(result))
    THEN [potential |-> potential, raised |-> "ValueError", at |-> "strptime in __evaluate_results"]
    ELSE [potential |-> Rank(potential, result, StrptimeYear(EvaluateDate(result)),
                             original_folder_name),
          raised |-> NoneV, at |-> NoneV]

RECURSIVE EvaluateLoop(_, _, _)
EvaluateLoop(potential, records, original_folder_name) ==
    IF records = <<>> THEN [potential |-> potential, raised |-> NoneV, at |-> NoneV]
    ELSE LET one == EvaluateOne(potential, Head(records), original_folder_name)
         IN  IF one.raised # NoneV THEN one
             ELSE EvaluateLoop(one.potential, Tail(records), original_folder_name)

\* __evaluate_results(results, original_folder_name) on an object whose list is
\* potential: the list afterwards and the exception raised, if any
evaluate_results(potential, results, original_folder_name) ==
    IF results.kind = "ok"
    THEN EvaluateLoop(<<>>, results.results, original_folder_name)
    ELSE [potential |-> potential, raised |-> NoneV, at |-> NoneV]

-----------------------------------------------------------------------------
(* IdentifyMedia.enquire: the rewrites of tidy_up_text_attempts *)

\* (\.|\s)
IsSeparator(c) == c \in {".", " "}

\* the end of the run of digits that starts at i (i - 1 when there is none)
RECURSIVE DigitRunEnd(_, _)
DigitRunEnd(t, i) ==
    IF i <= Len(t) /\ IsDigit(Char(t, i)) THEN DigitRunEnd(t, i + 1) ELSE i - 1

\* [sS]\d{2,} at i: the index of its last digit, 0 when it does not match
SeasonTokenEnd(t, i) ==
    IF i <= Len(t) /\ Char(t, i) \in {"s", "S"} /\ DigitRunEnd(t, i + 1) >= i + 2
    THEN DigitRunEnd(t, i + 1) ELSE 0

\* [sS]\d{2,}[eE]\d{2,} at i
SeasonEpisodeTokenAt(t, i) ==
    LET e == SeasonTokenEnd(t, i)
    IN  /\ e # 0 /\ e + 3 <= Len(t)
        /\ Char(t, e + 1) \in {"e", "E"}
        /\ IsDigit(Char(t, e + 2)) /\ IsDigit(Char(t, e + 3))

\* [sS]\d{2,}(-|_)[sS]\d{2,} at i: the index of its last digit, 0 when it does not match
SeasonRangeEnd(t, i) ==
    LET e == SeasonTokenEnd(t, i)
    IN  IF e # 0 /\ e + 1 <= Len(t) /\ Char(t, e + 1) \in {"-", "_"}
        THEN SeasonTokenEnd(t, e + 2) ELSE 0

\* re.sub(pattern + ".*", "", t) for a pattern that matches at the indices hits
CutAt(t, hits) == IF hits = {} THEN t ELSE SubSeq(t, 1, Min(hits) - 1)

\* attempt 1: (\.|\s)([sS]\d{2,}|(720|1080|2160)p)(\.|\s).*
MarkerHits(t) ==
    {i \in 1..Len(t) :
        /\ IsSeparator(Char(t, i))
        /\ \/ LET e == SeasonTokenEnd(t, i + 1)
              IN  e # 0 /\ e + 1 <= Len(t) /\ IsSeparator(Char(t, e + 1))
           \/ \E r \in RESOLUTIONS :
                /\ StartsWithAt(t, i + 1, r)
                /\ i + Len(r) + 1 <= Len(t) /\ IsSeparator(Char(t, i + Len(r) + 1))}

\* attempts 3 and 5: (\.|\s)[sS]\d{2,}[eE]\d{2,}.*
SeparatedEpisodeHits(t) ==
    {i \in 1..Len(t) : IsSeparator(Char(t, i)) /\ SeasonEpisodeTokenAt(t, i + 1)}

\* attempt 4: (\.|\s)\d{4}.*
YearHits(t) ==
    {i \in 1..Len(t) : IsSeparator(Char(t, i)) /\ i + 4 <= Len(t) /\ AllDigits(SubSeq(t, i + 1, i + 4))}

\* attempt 6: (\.|\s)\(\d{4}\).*
BracedYearHits(t) ==
    {i \in 1..Len(t) :
        /\ IsSeparator(Char(t, i)) /\ i + 6 <= Len(t)
        /\ Char(t, i + 1) = "(" /\ AllDigits(SubSeq(t, i + 2, i + 5)) /\ Char(t, i + 6) = ")"}

\* attempt 8: (s|S)\d{2,}(e|E)\d{2,}.*
EpisodeHits(t) == {i \in 1..Len(t) : SeasonEpisodeTokenAt(t, i)}

\* attempt 7: re.sub("(s|S)\d{2,}(-|_)(s|S)\d{2,}", "", t)
RECURSIVE DropSeasonRanges(_, _)
DropSeasonRanges(t, i) ==
    IF i > Len(t) THEN ""
    ELSE IF SeasonRangeEnd(t, i) # 0 THEN DropSeasonRanges(t, SeasonRangeEnd(t, i) + 1)
    ELSE Char(t, i) \o DropSeasonRanges(t, i + 1)

\* attempt 9: re.sub("(s|S)\d{2,}", "", t)
RECURSIVE DropSeasons(_, _)
DropSeasons(t, i) ==
    IF i > Len(t) THEN ""
    ELSE IF SeasonTokenEnd(t, i) # 0 THEN DropSeasons(t, SeasonTokenEnd(t, i) + 1)
    ELSE Char(t, i) \o DropSeasons(t, i + 1)

\* the number of entries of tidy_up_text_attempts
TidyUpAttempts == 9

\* re.sub(attempt[0], attempt[1], name) for the k-th entry of tidy_up_text_attempts
TidyUp(k, name) ==
    CASE k = 1 -> CutAt(name, MarkerHits(name))
      [] k = 2 -> Replace(name, ".", " ")
      [] k = 3 -> CutAt(name, SeparatedEpisodeHits(name))
      [] k = 4 -> CutAt(name, YearHits(name))
      [] k = 5 -> CutAt(name, SeparatedEpisodeHits(name))
      [] k = 6 -> CutAt(name, BracedYearHits(name))
      [] k = 7 -> DropSeasonRanges(name, 1)
      [] k = 8 -> CutAt(name, EpisodeHits(name))
      [] k = 9 -> DropSeasons(name, 1)

-----------------------------------------------------------------------------
(* IdentifyMedia: identify, enquire, search_media, confirm_identity *)

MaxResults == 2

\* the records the catalog answers a search of an identification with
SearchRecords == {MovieA, MovieU, ShowB, PlainShow}

\* the answers of tmdb.search_tv, search_movies and search_multi
SearchAnswers ==
    {Found(r) : r \in SeqsUpTo(SearchRecords, MaxResults)} \cup {Envelope(404)}

\* what the user types at a prompt
ConfirmInputs == {"y", "Y", "n", "s", "q"}
RetryInputs   == {"y", "n", "N"}
TitleInputs   == {"A", ""}
YearInputs    == {"2020", "20", "abcd"}
TypeInputs    == {"tv", "Movie", "film"}

\* str.lower() on what the user can type
Lower(t) ==
    CASE t = "Y" -> "y" [] t = "N" -> "n" [] t = "S" -> "s" [] t = "Movie" -> "movie"
      [] OTHER -> t

\* bool(d) of a dictionary the catalog client returned: it has keys
DictTruthy(d) == d.kind \in {"ok", "error"}

\* bool(name) of a name that is None or a string
NameTruthy(name) == name \notin {NoneV, ""}

\* identify() ends with the exception exc raised at the place at
IdentRaise(obj, exc, at) ==
    /\ ident' = obj
    /\ ipc' = "raised"
    /\ ilog' = [ilog EXCEPT !.raised = exc, !.raisedAt = at]
    /\ iloc' = iloc

\* search_media(potential_name): the call it makes
SearchQuery(obj, potential_name) ==
    LET name == IF NameTruthy(obj.name) THEN obj.name ELSE potential_name
    IN  IF obj.type = "tv" THEN [call |-> "search_tv", name |-> name, year |-> obj.year]
        ELSE IF obj.type = "movie" THEN [call |-> "search_movies", name |-> name, year |-> obj.year]
        ELSE [call |-> "search_multi", name |-> name, year |-> NoneInt]

\* what keeps a search from reaching the catalog: "year >= 0" on None in
\* search_tv and search_movies, the missing key in TMDB.request
SearchRaises(q) ==
    IF q.call # "search_multi" /\ q.year = NoneInt THEN "TypeError"
    ELSE IF api_key \in {NoneV, ""} THEN "ValueError"
    ELSE NoneV

\* the fields of the object a pass or a call is compared on
Identity(obj) ==
    [identity |-> obj.identity, id |-> obj.id, name |-> obj.name, year |-> obj.year,
     type |-> obj.type]

\* confirm_identity is entered by caller with the search answer results at hand
ConfirmBegin(obj, log, caller, attempt, name, results) ==
    /\ ident' = obj
    /\ ipc' = "confirm"
    /\ iloc' = [caller |-> caller, attempt |-> attempt, name |-> name, results |-> results,
                index |-> 1]
    /\ ilog' = [log EXCEPT !.pass = [potential |-> obj.potential, before |-> Identity(obj),
                                     asked |-> <<>>, answers |-> <<>>, end |-> "open"]]

\* identify(), lines 280-285: after the question about a retry
Dispatch(obj, log) ==
    LET o == [obj EXCEPT !.identity = NoneR]
        q == SearchQuery(o, o.name)
    IN  IF ~NameTruthy(o.name)
        THEN /\ ident' = o
             /\ ipc' = "enquire"
             /\ iloc' = [NoIdentifyLocals EXCEPT !.attempt = 1, !.name = Basename(o.item)]
             /\ ilog' = log
        ELSE IF SearchRaises(q) # NoneV
        THEN /\ ident' = o
             /\ ipc' = "raised"
             /\ iloc' = NoIdentifyLocals
             /\ ilog' = [log EXCEPT !.raised = SearchRaises(q), !.raisedAt = q.call]
        ELSE \E answer \in catalog :
             \* line 285: the answer is dropped
             /\ ident' = o
             /\ ipc' = "manual"
             /\ iloc' = NoIdentifyLocals
             /\ ilog' = [log EXCEPT !.searches = @ + 1, !.query = q, !.answer = answer]

\* identify() is called on obj, lines 262-276
IdentifyEntry(obj) ==
    LET log == [NoIdentifyLog EXCEPT !.atCall = obj]
    IN  IF obj.item = ""
        THEN /\ ident' = obj /\ ipc' = "raised" /\ iloc' = NoIdentifyLocals
             /\ ilog' = [log EXCEPT !.raised = "Exception", !.raisedAt = "identify"]
        ELSE IF obj.identity # NoneR
        THEN /\ ident' = obj /\ ipc' = "retry" /\ iloc' = NoIdentifyLocals /\ ilog' = log
        ELSE Dispatch(obj, log)

\* line 277 with the test negated
RetryReturns_Negated(response) == response # "n"

\* line 277: whether identify() returns after the question about a retry
RetryReturns(response) == response = "n"

\* identify(), lines 269-280: the user answers "Would you like to try to identify again"
RetryAnswer(response) ==
    /\ ipc = "retry"
    /\ IF response \notin {"y", "n"}
       THEN /\ ilog' = [ilog EXCEPT !.response = response]
            /\ UNCHANGED <<ident, ipc, iloc>>
       ELSE IF RetryReturns(response)
       THEN /\ ipc' = "returned"
            /\ ilog' = [ilog EXCEPT !.response = response, !.retry = response]
            /\ UNCHANGED <<ident, iloc>>
       ELSE Dispatch(ident, [ilog EXCEPT !.response = response, !.retry = response])

\* enquire(), lines 447-458: one turn of the loop up to confirm_identity
EnquireStep ==
    /\ ipc = "enquire"
    /\ \E k \in {iloc.attempt}, original_folder_name \in {Basename(ident.item)} :
       \E q \in {IF k > TidyUpAttempts THEN NoneR
                  ELSE SearchQuery(ident, TidyUp(k, iloc.name))} :
           IF k > TidyUpAttempts
           THEN /\ ipc' = "manual" /\ UNCHANGED <<ident, iloc, ilog>>
           ELSE IF ident.results.kind = "error"
           THEN IdentRaise(ident, "KeyError", "self.results['results']")
           ELSE IF ident.results.kind = "ok" /\ ident.results.results # <<>>
           THEN /\ ipc' = "manual" /\ UNCHANGED <<ident, iloc, ilog>>
           ELSE IF SearchRaises(q) # NoneV
           THEN IdentRaise(ident, SearchRaises(q), q.call)
           ELSE \E answer \in catalog :
                LET log == [ilog EXCEPT !.searches = @ + 1, !.query = q, !.answer = answer]
                    ev  == evaluate_results(ident.potential, answer, original_folder_name)
                    obj == [ident EXCEPT !.potential = ev.potential]
                IN  IF ~DictTruthy(answer)
                    THEN /\ ident' = ident /\ ipc' = "enquire" /\ ilog' = log
                         /\ iloc' = [iloc EXCEPT !.attempt = k + 1, !.name = q.name]
                    ELSE IF ev.raised # NoneV
                    THEN /\ ident' = obj /\ ipc' = "raised" /\ iloc' = iloc
                         /\ ilog' = [log EXCEPT !.raised = ev.raised, !.raisedAt = ev.at]
                    ELSE ConfirmBegin(obj, log, "enquire", k, q.name, answer)

\* confirm_identity, lines 341-350: the keys of the date and the name of a
\* candidate, NoneR when its type is not supported
ConfirmColumns(result, type) ==
    IF (Has(result, "media_type") /\ result.media_type = "tv") \/ type = "tv"
    THEN [date |-> "first_air_date", name |-> "name"]
    ELSE IF (Has(result, "media_type") /\ result.media_type = "movie") \/ type = "movie"
    THEN [date |-> "release_date", name |-> "title"]
    ELSE NoneR

\* the confirm pass ends the way end says
ConfirmEnd(obj, end) ==
    /\ ident' = obj
    /\ ipc' = "confirmed"
    /\ iloc' = iloc
    /\ ilog' = [ilog EXCEPT !.pass.end = end]

\* confirm_identity, lines 340-360: the next candidate of the list, up to its question
ConfirmNext ==
    /\ ipc = "confirm"
    /\ IF iloc.index > Len(ident.potential)
       THEN ConfirmEnd(ident, "exhausted")
       ELSE LET result == ident.potential[iloc.index]
                cols   == ConfirmColumns(result, ident.type)
            IN  IF cols = NoneR
                THEN IF ident.debug /\ ~Has(result, "media_type")
                     THEN IdentRaise(ident, "KeyError", "result['media_type']")
                     ELSE /\ iloc' = [iloc EXCEPT !.index = @ + 1]
                          /\ UNCHANGED <<ident, ipc, ilog>>
                ELSE IF ~Has(result, cols.name)
                THEN IdentRaise(ident, "KeyError", "result[name]")
                ELSE IF ~Has(result, cols.date)
                THEN IdentRaise(ident, "KeyError", "result[date]")
                ELSE /\ ipc' = "ask"
                     /\ ilog' = [ilog EXCEPT !.pass.asked = Append(@, iloc.index)]
                     /\ UNCHANGED <<ident, iloc>>

\* lines 367-371 without the "break" of the answer s: the loop goes on
AfterSkip_GoesOn(index) == [ipc |-> "confirm", index |-> index + 1, end |-> "open"]

\* lines 369-371: where the answer s leads
AfterSkip(index) == [ipc |-> "confirmed", index |-> index, end |-> "s"]

\* line 379 without the "break" after a confirmation: the loop goes on
AfterYes_GoesOn(index) == [ipc |-> "confirm", index |-> index + 1, end |-> "open"]

\* lines 373-379: where the answer y leads
AfterYes(index) == [ipc |-> "confirmed", index |-> index, end |-> "y"]

\* lines 373-375 with the title of the catalog stored as it came
Confirmed_RawName(obj, result, cols) ==
    [obj EXCEPT !.identity = result, !.id = result.id, !.name = result[cols.name]]

\* lines 373-378: the object after the candidate result was confirmed, up to
\* the assignment of the year (which may raise)
Confirmed(obj, result, cols) ==
    [obj EXCEPT !.identity = result, !.id = result.id, !.name = remove_unicode(result[cols.name])]

\* lines 373-378: the object after the candidate result was confirmed
Resolved(obj, result, cols) ==
    [Confirmed(obj, result, cols) EXCEPT
         !.year = StrptimeYear(result[cols.date]),
         !.type = IF @ = NoneV THEN result.media_type ELSE @]

\* confirm_identity, lines 361-379: the user answers the question about a candidate
ConfirmAnswer(response) ==
    /\ ipc = "ask"
    /\ LET result == ident.potential[iloc.index]
           cols   == ConfirmColumns(result, ident.type)
           noted  == [ilog EXCEPT !.response = response]
           log    == [noted EXCEPT !.pass.answers = Append(@, Lower(response))]
           partly == Confirmed(ident, result, cols)
           fully  == Resolved(ident, result, cols)
           go(obj, to) ==
               /\ ident' = obj
               /\ ipc' = to.ipc
               /\ iloc' = [iloc EXCEPT !.index = to.index]
               /\ ilog' = [log EXCEPT !.pass.end = to.end]
       IN  IF Lower(response) \notin {"y", "n", "s"}
           THEN /\ ilog' = noted /\ UNCHANGED <<ident, ipc, iloc>>
           ELSE IF Lower(response) = "n"
           THEN /\ ipc' = "confirm" /\ ilog' = log
                /\ iloc' = [iloc EXCEPT !.index = @ + 1]
                /\ UNCHANGED ident
           ELSE IF Lower(response) = "s"
           THEN go(ident, AfterSkip(iloc.index))
           ELSE IF ~StrptimeAccepts(result[cols.date])
           THEN /\ ident' = partly /\ ipc' = "raised" /\ iloc' = iloc
                /\ ilog' = [log EXCEPT !.raised = "ValueError",
                                       !.raisedAt = "strptime in confirm_identity"]
           ELSE go(fully, AfterYes(iloc.index))

\* after confirm_identity: lines 454-456 of enquire, lines 316-317 of identify.
\* When the loop of enquire turns, its local results is dead (line 450 assigns
\* it before anything reads it) and the pass is over: both are forgotten.
AfterConfirm ==
    /\ ipc = "confirmed"
    /\ IF ident.identity # NoneR
       THEN /\ ident' = [ident EXCEPT !.results = iloc.results]
            /\ ipc' = "manual"
            /\ UNCHANGED <<iloc, ilog>>
       ELSE IF iloc.caller = "enquire"
       THEN /\ ipc' = "enquire"
            /\ iloc' = [iloc EXCEPT !.attempt = @ + 1, !.results = NoneR, !.index = 0]
            /\ ilog' = [ilog EXCEPT !.pass = NoPass, !.response = NoneV, !.answer = NoneR]
            /\ UNCHANGED ident
       ELSE /\ ipc' = "manual"
            /\ UNCHANGED <<ident, iloc, ilog>>

\* identify(), line 287: the test of "while not self.identity"
ManualCheck ==
    /\ ipc = "manual"
    /\ ipc' = IF ident.identity # NoneR THEN "returned" ELSE "title"
    /\ UNCHANGED <<ident, iloc, ilog>>

\* identify(), lines 291-293: the user gives the title
ManualTitle(title) ==
    /\ ipc = "title"
    /\ ident' = [ident EXCEPT !.name = title, !.year = NoneInt]
    /\ ipc' = "year"
    /\ ilog' = [ilog EXCEPT !.response = title]
    /\ iloc' = iloc

\* line 296 with the pattern ^\d+$: any run of digits is taken as a year
IsFourDigits_AnyDigits(text) == Len(text) > 0 /\ AllDigits(text)

\* re.search(r'^\d{4}$', text)
IsFourDigits(text) == Len(text) = 4 /\ AllDigits(text)

\* lines 299 and 309: what the prompts print about an input they do not take
YearNotice == "Year should be an integer."
TypeNotice == "Type should be one of movie/tv."

\* identify(), lines 294-302: the user gives the year
ManualYear(text) ==
    /\ ipc = "year"
    /\ IF IsFourDigits(text)
       THEN /\ ident' = [ident EXCEPT !.year = ParseInt(text), !.type = NoneV]
            /\ ipc' = "type"
            /\ ilog' = [ilog EXCEPT !.response = text, !.notice = NoneV]
       ELSE /\ ident' = [ident EXCEPT !.year = NoneInt]
            /\ ipc' = "year"
            /\ ilog' = [ilog EXCEPT !.response = text, !.notice = YearNotice]
    /\ iloc' = iloc

\* the arguments line 314 passes to __evaluate_results(results, original_folder_name)
ManualEvaluateArguments == <<"results">>

\* identify(), lines 303-315: the user gives the type; the search and the
\* evaluation of its answer
ManualType(text) ==
    /\ ipc = "type"
    /\ IF Lower(text) \notin SUPPORTED_TYPES
       THEN /\ ident' = [ident EXCEPT !.type = NoneV]
            /\ ilog' = [ilog EXCEPT !.response = text, !.notice = TypeNotice]
            /\ UNCHANGED <<ipc, iloc>>
       ELSE LET obj == [ident EXCEPT !.type = Lower(text)]
                q   == SearchQuery(obj, obj.name)
                log == [ilog EXCEPT !.response = text, !.notice = NoneV]
            IN  IF SearchRaises(q) # NoneV
                THEN /\ ident' = obj /\ ipc' = "raised" /\ iloc' = iloc
                     /\ ilog' = [log EXCEPT !.raised = SearchRaises(q), !.raisedAt = q.call]
                ELSE \E answer \in catalog :
                     LET log2 == [log EXCEPT !.searches = @ + 1, !.query = q, !.answer = answer]
                         ev   == evaluate_results(obj.potential, answer, Basename(obj.item))
                     IN  IF ~DictTruthy(answer)
                         THEN /\ ident' = obj /\ ipc' = "manual" /\ iloc' = iloc /\ ilog' = log2
                         ELSE IF Len(ManualEvaluateArguments) # 2
                         THEN /\ ident' = obj /\ ipc' = "raised" /\ iloc' = iloc
                              /\ ilog' = [log2 EXCEPT !.raised = "TypeError",
                                                      !.raisedAt = "__evaluate_results(results)"]
                         ELSE IF ev.raised # NoneV
                         THEN /\ ident' = [obj EXCEPT !.potential = ev.potential]
                              /\ ipc' = "raised" /\ iloc' = iloc
                              /\ ilog' = [log2 EXCEPT !.raised = ev.raised, !.raisedAt = ev.at]
                         ELSE ConfirmBegin([obj EXCEPT !.potential = ev.potential], log2,
                                           "manual", 0, q.name, answer)

-----------------------------------------------------------------------------
(* The runs of IdentifyMedia alone: identify() is called on an object as   *)
(* __main__ constructs it, or on one identified by an earlier call.        *)

\* the values of the variables of a part of the program that is not running
MainIdle ==
    /\ mpc = "idle" /\ api_key = "key" /\ objects = <<>> /\ oi = 0
    /\ args = NoneR /\ catalog = SearchAnswers

IdentifyIdle ==
    /\ ident = NoneR /\ ipc = "idle" /\ iloc = NoIdentifyLocals /\ ilog = NoIdentifyLog

RenameIdle ==
    /\ rpc = "idle" /\ rloc = NoRenameLocals /\ rlog = NoRenameLog

IdentifyItems == {"/m/A.2020", "/m/B.S01E02.720p"}

\* an object on which identify() has finished: enquire got the answer answer
\* and the user confirmed the i-th candidate of the list made of it
Identified(obj, answer, i) ==
    LET potential == evaluate_results(obj.potential, answer, Basename(obj.item)).potential
        result    == potential[i]
    IN  [Resolved([obj EXCEPT !.potential = potential], result,
                  ConfirmColumns(result, obj.type))
            EXCEPT !.results = answer]

\* the answer the objects identified before a run were identified with
AnswerBefore == Found(<<ShowB, MovieA>>)

\* the name, year and type __main__ passes: args.name, args.year (-1 when not
\* given), args.type
Constructions ==
    {[name |-> NoneV, year |-> -1, type |-> NoneV],
     [name |-> NoneV, year |-> -1, type |-> "tv"],
     [name |-> "A", year |-> 2020, type |-> "movie"],
     [name |-> "B", year |-> -1, type |-> NoneV]}

RenameUnused ==
    /\ RenameIdle /\ validate = FALSE
    /\ fs = [dirs |-> {Sep}, files |-> {}] /\ fs0 = fs

InitIdentify ==
    /\ MainIdle /\ RenameUnused
    /\ ipc = "idle" /\ iloc = NoIdentifyLocals /\ ilog = NoIdentifyLog
    /\ \E item \in IdentifyItems, debug \in BOOLEAN :
         /\ items = <<item>>
         /\ \/ \E c \in Constructions :
                  ident = NewIdentifyMedia(item, c.name, c.year, c.type, debug)
            \/ \E i \in 1..Len(AnswerBefore.results) :
                  ident = Identified(NewIdentifyMedia(item, NoneV, -1, NoneV, debug),
                                     AnswerBefore, i)

\* identify() is called on the object
CallIdentify ==
    /\ ipc = "idle"
    /\ IdentifyEntry(ident)
    /\ UNCHANGED <<mainVars, renameVars>>

StepRetryAnswer == (\E r \in RetryInputs : RetryAnswer(r)) /\ UNCHANGED <<mainVars, renameVars>>

StepEnquire == EnquireStep /\ UNCHANGED <<mainVars, renameVars>>

StepConfirmNext == ConfirmNext /\ UNCHANGED <<mainVars, renameVars>>

StepConfirmAnswer == (\E r \in ConfirmInputs : ConfirmAnswer(r)) /\ UNCHANGED <<mainVars, renameVars>>

StepAfterConfirm == AfterConfirm /\ UNCHANGED <<mainVars, renameVars>>

StepManualCheck == ManualCheck /\ UNCHANGED <<mainVars, renameVars>>

StepManualTitle == (\E t \in TitleInputs : ManualTitle(t)) /\ UNCHANGED <<mainVars, renameVars>>

StepManualYear == (\E t \in YearInputs : ManualYear(t)) /\ UNCHANGED <<mainVars, renameVars>>

StepManualType == (\E t \in TypeInputs : ManualType(t)) /\ UNCHANGED <<mainVars, renameVars>>

IdentifySteps ==
    \/ StepEnquire \/ StepConfirmNext \/ StepConfirmAnswer
    \/ StepAfterConfirm \/ StepManualCheck \/ StepManualTitle \/ StepManualYear
    \/ StepManualType

NextIdentify == CallIdentify \/ StepRetryAnswer \/ IdentifySteps

SpecIdentify == InitIdentify /\ [][NextIdentify]_vars

-----------------------------------------------------------------------------
(* __evaluate_results alone: one call on an object, with an answer of the  *)
(* catalog and the name of the item drawn from bounded sets.               *)

MaxEvalLen == 3

EvaluateRecords ==
    {MovieA, MovieU, ShowB, Person, PlainShow, NoTitle, NoDate, DateLess, NameLess, ShowE}

EvaluateAnswers ==
    {Found(r) : r \in SeqsUpTo(EvaluateRecords, MaxEvalLen)} \cup {Envelope(404)}

InitEvaluate ==
    /\ MainIdle /\ RenameUnused
    /\ ipc = "evaluate" /\ ilog = NoIdentifyLog
    /\ \E item \in IdentifyItems, answer \in EvaluateAnswers, before \in {<<>>, <<ShowB>>},
          debug \in BOOLEAN :
         /\ items = <<item>>
         /\ ident = [NewIdentifyMedia(item, NoneV, -1, NoneV, debug) EXCEPT !.potential = before]
         /\ iloc = [NoIdentifyLocals EXCEPT !.caller = "enquire", !.attempt = 1,
                                            !.name = Basename(item), !.results = answer]

\* self.__evaluate_results(results, original_folder_name), line 452
Evaluate ==
    /\ ipc = "evaluate"
    /\ LET ev == evaluate_results(ident.potential, iloc.results, Basename(ident.item))
       IN  /\ ident' = [ident EXCEPT !.potential = ev.potential]
           /\ ipc' = IF ev.raised = NoneV THEN "evaluated" ELSE "raised"
           /\ ilog' = [ilog EXCEPT !.raised = ev.raised, !.raisedAt = ev.at]
    /\ UNCHANGED <<iloc, mainVars, renameVars>>

NextEvaluate == Evaluate

SpecEvaluate == InitEvaluate /\ [][NextEvaluate]_vars

-----------------------------------------------------------------------------
(* The runs of RenameMedia alone: one call of show() or movie() on a file  *)
(* system that holds the item, with the identity the caller passes.        *)

MaxFiles == 2

\* the directory the item lies in
Parents == {"/m", "/1080p"}

\* what the item, when it is a folder, may contain
FolderEntries == {"a.720p.mkv", "b.mkv", "n.txt", "x.S01E01.mkv", "y.s01e02.mkv", "S1"}

\* the subfolders an item may have, and the file inside each
Subfolders == {"S1", "z.S01E01"}

SubfolderFile(d) == IF d = "S1" THEN "w.S02E01.1080p.mkv" ELSE "sample.mkv"

\* the items that are single files
FileItems == {"a.720p.mkv", "b.mkv", "x.S01E01.mkv"}

FolderItem == "A.2020"

\* the identity show() and movie() are called with
RenameIdentity == [id |-> 7, name |-> "A", year |-> 2020]

\* what lies at the target "<name> (<year>)" beforehand: nothing, an empty
\* folder, a folder with a file in it
TargetStates == {"absent", "empty", "used"}

TargetEntries(parent, t) ==
    LET target == Join(parent, MediaFolderName(RenameIdentity.name, RenameIdentity.year))
    IN  [dirs  |-> IF t = "absent" THEN {} ELSE {target},
         files |-> IF t = "used" THEN {Join(target, "old.mkv")} ELSE {}]

FolderScenario(parent, t, entries) ==
    LET item == Join(parent, FolderItem)
        te   == TargetEntries(parent, t)
    IN  [item |-> item,
         fs   |-> [dirs  |-> {Sep, parent, item} \cup te.dirs
                                \cup {Join(item, e) : e \in entries \cap Subfolders},
                   files |-> te.files \cup {Join(item, e) : e \in entries \ Subfolders}
                                \cup {Join(Join(item, e), SubfolderFile(e)) :
                                         e \in entries \cap Subfolders}]]

FileScenario(parent, t, file) ==
    LET te == TargetEntries(parent, t)
    IN  [item |-> Join(parent, file),
         fs   |-> [dirs |-> {Sep, parent} \cup te.dirs, files |-> te.files \cup {Join(parent, file)}]]

\* folders of a release as they are downloaded: the episode and a sample in a
\* subfolder named after the episode; an episode numbered 00
ReleaseFolders == {{"z.S01E01"}, {"z.S01E01", "x.S01E01.mkv"}, {"v.S01E00.mkv"}}

RenameScenarios ==
    {FolderScenario(p, t, e) : p \in Parents, t \in TargetStates,
                               e \in {x \in SUBSET FolderEntries : Cardinality(x) <= MaxFiles}}
    \cup {FileScenario(p, t, file) : p \in Parents, t \in TargetStates, file \in FileItems}
    \cup {FolderScenario("/m", "absent", e) : e \in ReleaseFolders}

InitRename ==
    /\ MainIdle /\ IdentifyIdle /\ RenameIdle
    /\ validate \in BOOLEAN
    /\ \E sc \in RenameScenarios : items = <<sc.item>> /\ fs = sc.fs /\ fs0 = sc.fs

\* the caller calls show() with the identity of the item
CallShow ==
    /\ rpc = "idle"
    /\ ShowBegin(items[1], RenameIdentity.id, RenameIdentity.name, RenameIdentity.year)
    /\ UNCHANGED <<mainVars, identVars>>

\* the caller calls movie() with the identity of the item
CallMovie ==
    /\ rpc = "idle"
    /\ MovieBegin(items[1], RenameIdentity.name, RenameIdentity.year)
    /\ UNCHANGED <<mainVars, identVars>>

StepShowFile == ShowFile /\ UNCHANGED <<mainVars, identVars>>

StepMovieFile == MovieFile /\ UNCHANGED <<mainVars, identVars>>

StepRenameReturn == RenameReturn /\ UNCHANGED <<mainVars, identVars>>

NextRename == CallShow \/ CallMovie \/ StepShowFile \/ StepMovieFile \/ StepRenameReturn

SpecRename == InitRename /\ [][NextRename]_vars

-----------------------------------------------------------------------------
(* The whole program: __main__ on a batch of items, lines 514-569.         *)

MaxItems == 2

\* the items of the batch, in the order __main__ lists them
MainBatch == <<"/m/A.2020", "/m/b.mkv", "/m/B">>

MainFs ==
    [dirs  |-> {Sep, "/m", "/m/A.2020", "/m/B"},
     files |-> {"/m/A.2020/a.720p.mkv", "/m/b.mkv", "/m/B/x.S01E01.mkv"}]

MainAnswers == {Found(<<>>), Found(<<ShowB, MovieA>>), Envelope(404)}

\* what the command line gives: --name, --year (-1 when absent), --type, -debug
MainArguments ==
    {[name |-> NoneV, year |-> -1, type |-> NoneV, debug |-> FALSE],
     [name |-> "A", year |-> 2020, type |-> "movie", debug |-> FALSE]}

\* TMDB_KEY of the environment: a key the catalog accepts, one it rejects, none
ApiKeys == {"key", "bad", NoneV}

InitMain ==
    /\ mpc = "start" /\ objects = <<>> /\ oi = 0
    /\ api_key \in ApiKeys
    /\ args \in MainArguments
    /\ catalog = MainAnswers
    /\ IdentifyIdle /\ RenameIdle
    /\ validate \in BOOLEAN
    /\ fs = MainFs /\ fs0 = MainFs
    /\ \E k \in 1..Min({MaxItems, Len(MainBatch)}) : items = SubSeq(MainBatch, 1, k)

\* set_api_key without line 30: the key the catalog rejected is kept
KeyAfter401_Kept(key) == key

\* line 30 of tmdb_api.py: the key the client holds after the answer 401
KeyAfter401(key) == ""

\* line 515, tmdb = TMDB(api_key, debug): set_api_key asks the catalog for a
\* movie; without a key TMDB.request raises, on the answer 401 set_api_key
\* clears the key and raises
ConstructTMDB ==
    /\ mpc = "start"
    /\ IF api_key \in {NoneV, ""}
       THEN mpc' = "aborted" /\ api_key' = api_key
       ELSE IF api_key = "bad"
       THEN mpc' = "aborted" /\ api_key' = KeyAfter401(api_key)
       ELSE mpc' = "pass1" /\ api_key' = api_key
    /\ UNCHANGED <<items, objects, oi, args, catalog, identVars, renameVars>>

\* lines 551-559 with the second loop started as soon as one object exists
FirstPassOver_Eager(identified, batch) == identified >= 1

\* lines 551-561: the first loop is over when every item has its object
FirstPassOver(identified, batch) == identified = Len(batch)

\* lines 551-559: the next item gets its objects and identify() is called
MainIdentify ==
    /\ mpc = "pass1" /\ ipc = "idle" /\ Len(objects) < Len(items)
    /\ IdentifyEntry(NewIdentifyMedia(items[Len(objects) + 1], args.name, args.year,
                                      args.type, args.debug))
    /\ UNCHANGED <<mainVars, renameVars>>

\* identify() returned to the first loop
MainIdentified ==
    /\ mpc = "pass1" /\ ipc = "returned"
    /\ objects' = Append(objects, ident)
    /\ ipc' = "idle" /\ ident' = NoneR
    /\ UNCHANGED <<mpc, api_key, items, oi, args, catalog, iloc, ilog, renameVars>>

\* an exception left identify(), show() or movie(): the program ends
MainAborts ==
    /\ mpc \in {"pass1", "pass2"}
    /\ (mpc = "pass1" /\ ipc = "raised") \/ (mpc = "pass2" /\ rpc = "raised")
    /\ mpc' = "aborted"
    /\ UNCHANGED <<api_key, items, objects, oi, args, catalog, identVars, renameVars>>

\* line 561: the second loop starts
MainSecondPass ==
    /\ mpc = "pass1" /\ ipc = "idle" /\ FirstPassOver(Len(objects), items)
    /\ mpc' = "pass2" /\ oi' = 1
    /\ UNCHANGED <<api_key, items, objects, args, catalog, identVars, renameVars>>

\* lines 561-569: the next object is renamed by its type
MainRename ==
    /\ mpc = "pass2" /\ rpc = "idle" /\ oi <= Len(objects)
    /\ LET identity == objects[oi]
       IN  IF identity.identity = NoneR \/ identity.type \notin {"tv", "movie"}
           THEN /\ oi' = oi + 1
                /\ UNCHANGED <<mpc, api_key, items, objects, args, catalog, identVars,
                               renameVars>>
           ELSE /\ IF identity.type = "tv"
                   THEN ShowBegin(identity.item, identity.id, identity.name, identity.year)
                   ELSE MovieBegin(identity.item, identity.name, identity.year)
                /\ UNCHANGED <<mainVars, identVars>>

\* show() or movie() returned to the second loop
MainRenamed ==
    /\ mpc = "pass2" /\ rpc = "returned"
    /\ oi' = oi + 1 /\ rpc' = "idle"
    /\ UNCHANGED <<mpc, api_key, items, objects, args, catalog, identVars, validate, fs, fs0,
                   rloc, rlog>>

\* the second loop is over: the program ends
MainEnds ==
    /\ mpc = "pass2" /\ rpc = "idle" /\ oi > Len(objects)
    /\ mpc' = "done"
    /\ UNCHANGED <<api_key, items, objects, oi, args, catalog, identVars, renameVars>>

NextMain ==
    \/ ConstructTMDB \/ MainIdentify \/ MainIdentified \/ MainAborts \/ MainSecondPass
    \/ MainRename \/ MainRenamed \/ MainEnds
    \/ IdentifySteps
    \/ StepShowFile \/ StepMovieFile \/ StepRenameReturn

SpecMain == InitMain /\ [][NextMain]_vars

-----------------------------------------------------------------------------
(* remove_invalid_characters alone: one call, as show() and movie() make   *)
(* it on the name of the identity (lines 105, 191), on a name drawn from a *)
(* bounded set.                                                            *)

MaxNameLen == 3

\* the characters the names are made of
SanitizeAlphabet == {"a", ".", "?", ":", "<", "*"}

\* the strings over the alphabet of length at most n
RECURSIVE NamesUpTo(_)
NamesUpTo(n) ==
    IF n = 0 THEN {""}
    ELSE LET shorter == NamesUpTo(n - 1)
         IN  shorter \cup {s \o c : s \in shorter, c \in SanitizeAlphabet}

\* names of titles and of devices
TitleNames ==
    {"Why?", "What...?", "Who? Me..?", "A: B", "CON", "NUL", "COM1", "CON?",
     "PRN", "LPT9", "AUX<", "CONS", "A/B\\C|D\"E>F", "Face/Off", "Plain Name"}

InitSanitize ==
    /\ MainIdle /\ IdentifyIdle
    /\ items = <<>> /\ validate = FALSE
    /\ fs = [dirs |-> {Sep}, files |-> {}] /\ fs0 = fs
    /\ rpc = "sanitize" /\ rlog = NoRenameLog
    /\ \E name \in NamesUpTo(MaxNameLen) \cup TitleNames :
         rloc = [NoRenameLocals EXCEPT !.given = name]

\* show_name = self.remove_invalid_characters(show_name), lines 105 and 191
Sanitize ==
    /\ rpc = "sanitize"
    /\ rloc' = [rloc EXCEPT !.name = remove_invalid_characters(rloc.given)]
    /\ rpc' = "sanitized"
    /\ UNCHANGED <<mainVars, identVars, validate, fs, fs0, rlog>>

NextSanitize == Sanitize

SpecSanitize == InitSanitize /\ [][NextSanitize]_vars

-----------------------------------------------------------------------------
(* Properties. Each is read under the specification of the method it is    *)
(* about: SpecRename for show() and movie(), SpecIdentify for identify(),   *)
(* SpecEvaluate for __evaluate_results, SpecSanitize for                    *)
(* remove_invalid_characters, SpecMain for __main__.                        *)

\* C1: with validate enabled, show() and movie() issue no os.rename, os.mkdir
\* or os.makedirs and leave the file system as it was, whatever the item, the
\* target folder and the catalog answers are.
C1_ValidateMutatesNothing == validate => (rlog.mutations = 0 /\ fs = fs0)

\* a validate run of a folder item that planned a destination and returned
C1_Witness ==
    /\ validate /\ rpc = "returned" /\ rloc.isdir
    /\ rlog.step # NoneR /\ rlog.step.result = "planned"

\* C2: in a run of __main__ on a batch, a step that changes the file system or
\* counts a mutation is taken only when every item of the batch has its
\* finished object and no identify() is running; and once the file system has
\* changed, no step asks the user, searches the catalog or changes an object.
C2_IdentifyAllBeforeAnyMutation ==
    [][/\ (fs' # fs \/ rlog'.mutations # rlog.mutations) =>
            /\ mpc = "pass2" /\ ipc = "idle"
            /\ Len(objects) = Len(items)
       /\ (fs # fs0 \/ rlog.mutations > 0) =>
            /\ ident' = ident /\ ipc' = ipc /\ ilog' = ilog /\ objects' = objects]_vars

\* the second item of a batch of two, identified through questions and
\* searches, is being renamed after the first was
C2_Witness ==
    /\ mpc = "pass2" /\ Len(items) >= 2 /\ oi = 2 /\ rpc = "files"
    /\ fs # fs0 /\ rlog.mutations >= 2
    /\ ilog.searches > 0 /\ ilog.pass.end = "y"

\* C3: when a move fails during show() or movie(), the method does not end
\* with the exception of that move, nor with the exception the missing folder
\* of the failed move causes when it is listed: it goes on.
C3_MoveFailureNotPropagated ==
    rlog.moveFailed =>
        rlog.raisedAt \notin {"os.rename in show", "__rename", "os.listdir in movie"}

\* C4: every call of __rename returns normally; when its move failed, with
\* whatever exception, the failure was logged.
C4_RenameNeverRaises ==
    rlog.rename # NoneR =>
        /\ rlog.rename.raised = NoneV
        /\ rlog.rename.exc # "ok" => rlog.rename.logged # NoneV

\* the names the run would plan for the file of the last step with validate
\* switched: the same item, identity, folder contents and catalog answer
OtherModePlan ==
    LET v2   == ~validate
        file == rlog.step.file
        begin == IF rloc.method = "movie"
                 THEN CHOOSE b \in MovieBeginOutcomes(fs0, v2, rloc.item, rloc.given, rloc.year) : TRUE
                 ELSE CHOOSE b \in ShowBeginOutcomes(fs0, v2, rloc.item, rloc.id, rloc.given, rloc.year) : TRUE
    IN  IF rloc.method = "movie" /\ ~rloc.isdir THEN begin[1].step.plan
        ELSE IF rloc.method = "movie"
        THEN (CHOOSE o \in MovieFileOutcomes(fs0, v2, begin[2], file) : TRUE).step.plan
        ELSE (CHOOSE o \in ShowFileOutcomes(fs0, v2, begin[2], file, rlog.step.season_info) : TRUE).step.plan

\* C5: the folder name, season folder name, resolution tag and file name
\* planned for a file are the same with validate enabled as with validate
\* disabled.
C5_SamePlanInBothModes ==
    (rlog.step # NoneR /\ rlog.step.result = "planned") => rlog.step.plan = OtherModePlan


\* the candidates a confirm pass has asked about so far come in the order of
\* the list, and a candidate it passed over is one of an unsupported type
AskedInListOrder(p) ==
    /\ \A j, k \in DOMAIN p.asked : j < k => p.asked[j] < p.asked[k]
    /\ \A j \in DOMAIN p.asked : \A i \in 1..(p.asked[j] - 1) :
           (\E k \in DOMAIN p.asked : p.asked[k] = i)
           \/ ConfirmColumns(p.potential[i], p.before.type) = NoneR

\* the identity a confirmation of the candidate result gives an object that
\* had the type type
ResolvedTo(result, type) ==
    LET cols == ConfirmColumns(result, type)
    IN  [identity |-> result, id |-> result.id, name |-> remove_unicode(result[cols.name]),
         year |-> StrptimeYear(result[cols.date]),
         type |-> IF type = NoneV THEN result.media_type ELSE type]

\* C6: confirm_identity asks about the candidates in the order of the list;
\* once the user answered y (in any case) for a candidate, that candidate is
\* the last one the pass asked about, the pass is over, and the identity, id,
\* name, year and (where it was unset) type of the object are that candidate's.
C6_YesResolvesToThatCandidate ==
    LET p == ilog.pass
    IN  /\ AskedInListOrder(p)
        /\ \A j \in DOMAIN p.answers :
               p.answers[j] = "y" =>
                   /\ j = Len(p.asked)
                   /\ ipc \notin {"confirm", "ask"}
                   /\ Identity(ident) = ResolvedTo(p.potential[p.asked[j]], p.before.type)

\* a pass confirmed, with a capital Y, a candidate that was not the last of
\* the list, for an object without a type
C6_Witness ==
    LET p == ilog.pass
    IN  /\ ipc = "confirmed" /\ p.end = "y" /\ ilog.response = "Y"
        /\ p.asked[Len(p.asked)] < Len(p.potential)
        /\ p.before.type = NoneV /\ ident.type # NoneV

\* C7: once the user answered s for a candidate, that candidate is the last
\* one the pass asked about, the pass is over, and when it ends the object has
\* no identity and the identity, id, name, year and type it had before the pass.
C7_SkipAbandonsTheList ==
    LET p == ilog.pass
    IN  \A j \in DOMAIN p.answers :
            p.answers[j] = "s" =>
                /\ j = Len(p.asked)
                /\ ipc \notin {"confirm", "ask"}
                /\ ipc = "confirmed" => (ident.identity = NoneR /\ Identity(ident) = p.before)

\* a pass was abandoned at a candidate that was not the last of the list
C7_Witness ==
    LET p == ilog.pass
    IN  /\ ipc = "confirmed" /\ p.end = "s"
        /\ p.asked # <<>>
        /\ p.asked[Len(p.asked)] < Len(p.potential)

\* whether the year of a surviving record occurs in the name of the item
YearInName(result, original_folder_name) ==
    Contains(original_folder_name, ToString(StrptimeYear(EvaluateDate(result))))

\* the records of a sequence, as a set
Range(seq) == {seq[i] : i \in DOMAIN seq}

\* C8: after __evaluate_results returned on a result set, no record of the
\* candidate list whose year does not occur in the name of the item precedes
\* one whose year does; the records whose year does not occur are in the order
\* the catalog gave them; and when exactly one record's year occurs, it is first.
C8_YearMatchesComeFirst ==
    (ipc = "evaluated" /\ iloc.results.kind = "ok") =>
        LET potential == ident.potential
            original  == Basename(ident.item)
            Other(r)  == ~YearInName(r, original)
            Kept(r)   == r \in Range(potential) /\ Other(r)
            matching  == {i \in DOMAIN potential : YearInName(potential[i], original)}
        IN  /\ \A i, j \in DOMAIN potential :
                   (i < j /\ YearInName(potential[j], original))
                       => YearInName(potential[i], original)
            /\ SelectSeq(potential, Other) = SelectSeq(iloc.results.results, Kept)
            /\ Cardinality(matching) = 1 => 1 \in matching

\* the catalog gave two records whose year is not in the name and then one
\* whose year is: the list starts with that one
C8_Witness ==
    /\ ipc = "evaluated" /\ iloc.results = Found(<<ShowB, MovieU, MovieA>>)
    /\ ident.item = "/m/A.2020"
    /\ ident.potential = <<MovieA, ShowB, MovieU>>

\* C9: __evaluate_results raises on no result set, and every record it leaves
\* in the candidate list has a supported media type, a name or a title that is
\* not empty, and a release or air date that is not empty.
C9_FilterDropsWithoutRaising ==
    ipc \in {"evaluated", "raised"} =>
        /\ ilog.raised = NoneV
        /\ iloc.results.kind = "ok" =>
               \A i \in DOMAIN ident.potential :
                   LET r == ident.potential[i]
                   IN  /\ Has(r, "media_type") /\ r.media_type \in SUPPORTED_TYPES
                       /\ \/ (Has(r, "name") /\ r.name # "")
                          \/ (Has(r, "title") /\ r.title # "")
                       /\ \/ (Has(r, "release_date") /\ r.release_date # "")
                          \/ (Has(r, "first_air_date") /\ r.first_air_date # "")

\* C10: when identify() is called on an object that has an identity and the
\* user answers n to the question about a retry, identify() returns, the object
\* is as it was at the call (identity, id, name, year, type, results, potential)
\* and no search was sent to the catalog.
C10_NoRetryLeavesAllUnchanged ==
    (ilog.atCall # NoneR /\ ilog.atCall.identity # NoneR /\ ilog.retry = "n") =>
        /\ ipc = "returned"
        /\ ident = ilog.atCall
        /\ ilog.searches = 0

C10_Witness ==
    /\ ipc = "returned" /\ ilog.retry = "n"
    /\ ident.identity # NoneR /\ ident.results # EmptyList /\ ident.potential # <<>>

\* C11: once an object has an id, no later step of a run (a prompt, a search,
\* a further call of identify()) changes its identity record, id, name, year
\* or type.
C11_ConfirmedIdentityIsImmutable ==
    [][ident.id # NoneInt => Identity(ident') = Identity(ident)]_vars

\* C12: when identify() is called on an object the caller gave a name, its
\* first search is the direct one with the name, type and year given, and the
\* candidates that answer yields were offered in a confirm pass: a manual
\* prompt is reached only after that pass ended without a y.
C12_SuppliedNameSearchIsOffered ==
    (/\ ilog.atCall # NoneR /\ ilog.atCall.identity = NoneR /\ NameTruthy(ilog.atCall.name)
     /\ ilog.searches = 1 /\ ilog.raised = NoneV) =>
        LET at == ilog.atCall
            ev == evaluate_results(<<>>, ilog.answer, Basename(at.item))
        IN  /\ ilog.query = SearchQuery(at, at.name)
            /\ ilog.query.name = at.name
            /\ (ilog.answer.kind = "ok" /\ ev.raised = NoneV /\ ev.potential # <<>>) =>
                   /\ ilog.pass.potential = ev.potential
                   /\ ipc \in {"title", "year", "type"} => ilog.pass.end \in {"exhausted", "s"}

\* C13: the search identify() sends after the manual prompts carries the title,
\* year and type typed, and when its answer yields candidates a confirm pass
\* over them begins (in which a y resolves the identity, C6) instead of an
\* exception.
C13_ManualSearchIsConfirmed ==
    [][(ipc = "type" /\ ilog'.searches = ilog.searches + 1) =>
          LET ev == evaluate_results(<<>>, ilog'.answer, Basename(ident.item))
          IN  /\ ilog'.query.name = ident.name /\ ilog'.query.year = ident.year
              /\ (ilog'.answer.kind = "ok" /\ ev.raised = NoneV /\ ev.potential # <<>>) =>
                     /\ ipc' = "confirm" /\ ilog'.raised = NoneV
                     /\ ilog'.pass.potential = ev.potential]_vars

\* C14: in the manual prompts a year that is not exactly four digits, and a
\* type that is not movie or tv in any case, raises nothing and sends no
\* search: a notice is printed and the same question is asked again; a valid
\* year leads to the question about the type, a valid type ends the prompts;
\* and the search that follows carries an integer year and a type of movie or tv.
C14_InvalidManualInputReprompts ==
    [][/\ ipc = "year" =>
            LET r == ilog'.response
            IN  /\ ilog'.raised = NoneV /\ ilog'.searches = ilog.searches
                /\ IF Len(r) = 4 /\ AllDigits(r)
                   THEN ipc' = "type" /\ ident'.year = ParseInt(r)
                   ELSE ipc' = "year" /\ ilog'.notice = YearNotice
       /\ ipc = "type" =>
            LET r == ilog'.response
            IN  IF Lower(r) \notin {"movie", "tv"}
                THEN /\ ipc' = "type" /\ ilog'.notice = TypeNotice
                     /\ ilog'.raised = NoneV /\ ilog'.searches = ilog.searches
                ELSE /\ ipc' # "type"
                     /\ ilog'.searches > ilog.searches =>
                            /\ ilog'.query.call \in {"search_tv", "search_movies"}
                            /\ ilog'.query.year \in 0..9999
                            /\ ident'.type \in {"movie", "tv"}]_vars

\* after a year that was taken, a type that is none was refused and is asked again
C14_Witness ==
    /\ ipc = "type" /\ ilog.response = "film" /\ ilog.notice = TypeNotice
    /\ ident.year = 2020 /\ ident.type = NoneV /\ ilog.raised = NoneV

\* the loop of show() is at a file: the step taken from here is its turn
AtShowFile == rpc = "files" /\ rloc.method = "show" /\ rloc.files # <<>>

\* C15: the turn of the loop of show() for a file whose name has no SxxExx
\* pattern, or whose extension is dat, inf, pdx or txt, asks the catalog for no
\* season, creates no directory and moves nothing, and the loop goes on with
\* the next file.
C15_UnmatchedFileIsLeftAlone ==
    [][(/\ AtShowFile
        /\ LET name == Basename(Head(rloc.files))
           IN  \/ Extension(name) \in INVALID_EXTENSIONS
               \/ SearchSeasonEpisode(StripExtension(name)) = NoneV)
       => /\ ~rlog'.step.lookup
          /\ fs' = fs /\ rlog'.mutations = rlog.mutations
          /\ rpc' = "files" /\ rloc'.files = Tail(rloc.files)]_vars

\* C16: the turn of the loop of show() in which the catalog answers the season
\* lookup with a 404 envelope logs and skips the file: it creates no directory,
\* moves nothing, raises nothing, and the loop goes on with the files that remain.
C16_Season404SkipsTheFile ==
    [][(/\ AtShowFile /\ rlog'.step.lookup
        /\ rlog'.step.season_info = [kind |-> "error", status_code |-> 404])
       => /\ rlog'.step.result = "404"
          /\ fs' = fs /\ rlog'.mutations = rlog.mutations
          /\ rlog'.raised = NoneV
          /\ rpc' = "files" /\ rloc'.files = Tail(rloc.files)]_vars

\* a real run skipped a file on a 404 and has files left to go on with
C16_Witness ==
    /\ ~validate /\ rpc = "files" /\ rloc.method = "show"
    /\ rlog.step # NoneR /\ rlog.step.result = "404"
    /\ rloc.files # <<>>

\* C17: the turn of the loop of show() for a file whose episode number is
\* greater than the number of episodes of the season record skips the file: no
\* season folder is created, nothing is moved, nothing is raised, and the loop
\* goes on with the files that remain.
C17_EpisodeBeyondSeasonIsSkipped ==
    [][(/\ AtShowFile /\ rlog'.step.lookup
        /\ rlog'.step.season_info.kind = "ok"
        /\ SearchSeasonEpisode(StripExtension(Head(rloc.files)))[2]
               > Len(rlog'.step.season_info.episodes))
       => /\ rlog'.step.result = "no episode"
          /\ fs' = fs /\ rlog'.mutations = rlog.mutations
          /\ rlog'.raised = NoneV
          /\ rpc' = "files" /\ rloc'.files = Tail(rloc.files)]_vars

\* a number below 100 with exactly two digits
TwoDigits(n) == ToString(n \div 10) \o ToString(n % 10)

\* C18: every file the loop of show() moves goes to
\* <show> (<year>)/<season folder>/S<ss>E<ee> - <episode name>.<ext>: the season
\* folder is Specials or Season N with the air year and the resolution of the
\* file name, ss and ee are the parsed numbers in two digits, and the episode
\* name is the sanitized name of the ee-th episode of the season record.
C18_EpisodeDestination ==
    [][(/\ AtShowFile /\ ~validate
        /\ rlog'.step.result = "planned" /\ rlog'.raisedAt # "os.makedirs in show"
        /\ rlog'.rename.exc = "ok")
       => LET file == Head(rloc.files)
              info == rlog'.step.season_info
              se   == SearchSeasonEpisode(StripExtension(file))
              res  == SearchResolution(StripExtension(file))
              season_folder ==
                  (IF se[1] = 0 THEN "Specials" ELSE "Season " \o ToString(se[1]))
                      \o " (" \o SubSeq(info.air_date, 1, 4) \o ")"
                      \o (IF res = NoneV THEN "" ELSE " [" \o res \o "]")
              show_folder == Join(PathParent(rloc.item), MediaFolderName(rloc.name, rloc.year))
          IN  /\ se[2] \in 1..Len(info.episodes)
              /\ rlog'.rename.to =
                     Join(Join(show_folder, season_folder),
                          "S" \o TwoDigits(se[1]) \o "E" \o TwoDigits(se[2]) \o " - "
                              \o remove_invalid_characters(info.episodes[se[2]])
                              \o "." \o Extension(file))]_vars

\* C19: a real run of movie() on a single file calls os.mkdir for the folder
\* "<name> (<year>)" next to the file exactly when nothing exists there; unless
\* that os.mkdir failed, it moves the file to
\* "<name> (<year>)/<name> (<year>)[ <resolution>].<ext>", and where the move
\* succeeded the file lies there; a folder that exists is not made again and
\* causes no exception.
C19_SingleMovieFile ==
    (rloc.method = "movie" /\ ~rloc.isdir /\ ~validate /\ rpc \in {"returned", "raised"}) =>
        LET item   == rloc.item
            folder_name == MediaFolderName(remove_invalid_characters(rloc.given), rloc.year)
            path   == Join(Dirname(item), folder_name)
            res    == SearchResolution(Basename(item))
            to     == Join(path, folder_name \o (IF res = NoneV THEN "" ELSE " [" \o res \o "]")
                                     \o "." \o Extension(Basename(item)))
            mkdirFailed == rlog.raisedAt = "os.mkdir in movie"
            made   == mkdirFailed \/ rlog.mutations = 2
        IN  /\ made <=> ~FsExists(fs0, path)
            /\ FsIsDir(fs0, path) => (path \in fs.dirs /\ ~mkdirFailed)
            /\ ~mkdirFailed =>
                   /\ rlog.rename # NoneR
                   /\ rlog.rename.from = item /\ rlog.rename.to = to
                   /\ rlog.rename.exc = "ok" => (to \in fs.files /\ item \notin fs.files)

\* a real run moved a single file with a resolution into a folder that was
\* there before, next to the file the folder held
C19_Witness ==
    /\ rloc.method = "movie" /\ ~rloc.isdir /\ ~validate /\ rpc = "returned"
    /\ rlog.mutations = 1 /\ rlog.rename # NoneR /\ rlog.rename.exc = "ok"
    /\ "/m/A (2020)/old.mkv" \in fs0.files /\ "/m/A (2020)/old.mkv" \in fs.files
    /\ "/m/A (2020)/A (2020) [720p].mkv" \in fs.files

\* the name with every character replaced in one pass: < > " / \ | * by
\* nothing, : by " -", ? by question; and a dot put after a device name
RECURSIVE MapCharacters(_, _)
MapCharacters(name, question) ==
    IF name = "" THEN ""
    ELSE LET c == Char(name, 1)
         IN  (IF c \in {"<", ">", "\"", "/", "\\", "|", "*"} THEN ""
              ELSE IF c = ":" THEN " -"
              ELSE IF c = "?" THEN question
              ELSE c) \o MapCharacters(SubSeq(name, 2, Len(name)), question)

DeviceNameDotted(name) == IF name \in invalid_filenames THEN name \o "." ELSE name

\* C20 as stated: sanitize deletes every ? of the name and puts nothing in its
\* place, after a run of dots or not.
C20_QuestionMarksDeleted ==
    rpc = "sanitized" =>
        rloc.name = DeviceNameDotted(MapCharacters(rloc.given, ""))

\* some ? of the name comes directly after a dot once the characters
\* < > " / \ | between them are taken out
QuestionAfterDot(name) ==
    LET m == MapCharacters(Replace(name, "*", "x"), "?")
    IN  Contains(m, ".?")

\* C20 as amended: sanitize leaves no ? in the name; when some ? directly
\* follows a dot, every ? of the name is deleted, and otherwise every ? is
\* replaced by a dot.
C20_QuestionMarksDeletedOrDotted ==
    rpc = "sanitized" =>
        /\ ~Contains(rloc.name, "?")
        /\ rloc.name = DeviceNameDotted(
                           MapCharacters(rloc.given,
                                         IF QuestionAfterDot(rloc.given) THEN "" ELSE "."))

\* a title that ends in a ? after no dot: the ? has become a dot
C20_Witness ==
    rpc = "sanitized" /\ rloc.given = "Why?" /\ rloc.name = "Why."

\* the characters a file name may not hold
DisallowedCharacters == {"<", ">", ":", "\"", "/", "\\", "|", "?", "*"}

HasDisallowed(name) == \E i \in 1..Len(name) : Char(name, i) \in DisallowedCharacters

\* C21: the name sanitize returns holds none of < > : " / \ | ? * and is no
\* device name; a name without ? is mapped character by character (: to " -",
\* the others to nothing) with a dot after a device name; a name that holds
\* no such character and is no device name comes back unchanged.
C21_SanitizedNameIsLegal ==
    rpc = "sanitized" =>
        /\ ~HasDisallowed(rloc.name)
        /\ rloc.name \notin invalid_filenames
        /\ ~Contains(rloc.given, "?") =>
               rloc.name = DeviceNameDotted(MapCharacters(rloc.given, ""))
        /\ (~HasDisallowed(rloc.given) /\ rloc.given \notin invalid_filenames) =>
               rloc.name = rloc.given

\* a device name that appears once < is taken out of the name
C21_Witness ==
    rpc = "sanitized" /\ rloc.given = "AUX<" /\ rloc.name = "AUX."

\* C22: a client built with a key the catalog answers 401 to ends the run
\* with its key cleared: the rejected key is held only before construction,
\* and with the cleared key the program has aborted with no object, no
\* prompt, no search, no change of the file system, and a request on the
\* client raises before it is sent.
C22_RejectedKeyIsFatal ==
    /\ api_key = "bad" => mpc = "start"
    /\ api_key = "" =>
          /\ mpc = "aborted" /\ objects = <<>> /\ oi = 0
          /\ ipc = "idle" /\ ident = NoneR /\ ilog = NoIdentifyLog
          /\ rpc = "idle" /\ rlog = NoRenameLog /\ fs = fs0
          /\ \A call \in {"search_multi", "search_tv", "search_movies"} :
                SearchRaises([call |-> call, name |-> "A", year |-> 2020]) = "ValueError"

\* the program after the construction with the rejected key
C22_Witness ==
    mpc = "aborted" /\ api_key = "" /\ items # <<>>

\* C23: the turn of the loop of show() in which the catalog answers the season
\* lookup with an error envelope, whatever its status code, reads no air_date
\* and no episodes from it and raises nothing: the file is passed over, the
\* file system is left alone and the loop goes on.
C23_ErrorEnvelopeIsChecked ==
    [][(/\ AtShowFile /\ rlog'.step.lookup
        /\ rlog'.step.season_info.kind = "error")
       => /\ rlog'.raised = NoneV
          /\ fs' = fs /\ rlog'.mutations = rlog.mutations
          /\ rpc' = "files" /\ rloc'.files = Tail(rloc.files)]_vars

\* C24: without a supplied name, each turn of the loop of enquire that searches
\* applies the rewrite of its turn to the name the turn before left and
\* searches once for it; and after a turn whose search returned a non-empty
\* result set the loop does not turn to a further rewrite.
C24_EnquireStopsAtFirstResults ==
    [][/\ (ipc = "enquire" /\ ilog'.searches # ilog.searches)
          => /\ ilog'.searches = ilog.searches + 1
             /\ ilog'.query.name = TidyUp(iloc.attempt, iloc.name)
       /\ (/\ ipc = "confirmed" /\ iloc.caller = "enquire"
           /\ iloc.results.kind = "ok" /\ iloc.results.results # <<>>
           /\ iloc.attempt < TidyUpAttempts)
          => ipc' # "enquire"]_vars

AtMovieFile == rpc = "files" /\ rloc.method = "movie" /\ rloc.files # <<>>

\* C25: the turn of the loop of movie() on a folder for an entry that is a
\* subdirectory or has an excluded extension leaves the file system alone and
\* issues no move; for any other entry a real run issues one move of that
\* entry.
C25_MovieRenamesFilesOnly ==
    [][AtMovieFile =>
         LET file == Head(rloc.files)
             path == Join(rloc.folder, file)
         IN  IF FsIsDir(fs, path) \/ Extension(file) \in INVALID_EXTENSIONS
             THEN fs' = fs /\ rlog'.mutations = rlog.mutations
             ELSE ~validate => /\ rlog'.mutations = rlog.mutations + 1
                               /\ rlog'.rename.from = path]_vars

\* the title the catalog gave the confirmed candidate of obj
CatalogTitle(obj) == obj.identity[ConfirmColumns(obj.identity, obj.type).name]

\* C26 as stated: the name stored in a confirmed identity is the title of the
\* catalog without the substitution of the problem characters.
C26_StoredNameIsCatalogTitle ==
    (ident # NoneR /\ ident.identity # NoneR) => ident.name = CatalogTitle(ident)

\* C26 as amended: the name stored in a confirmed identity is the title of the
\* catalog with the substitution of the problem characters applied, as the
\* prompt showed it; the identity record keeps the candidate as the catalog
\* gave it.
C26_StoredNameIsSubstitutedTitle ==
    (ident # NoneR /\ ident.identity # NoneR) =>
        /\ ident.name = remove_unicode(CatalogTitle(ident))
        /\ ident.identity \in Range(ident.potential)

\* identify() returned with the movie whose title holds U+00FC confirmed
C26_Witness ==
    /\ ipc = "returned" /\ ident.identity = MovieU
    /\ CatalogTitle(ident) = "A#" /\ ident.name = "Au"

\* the turn of the loop of show() or movie() that is taken moved its file
MovedItsFile ==
    /\ rpc = "files" /\ rloc.files # <<>> /\ ~validate
    /\ rlog'.step.result = "planned" /\ rlog'.mutations > rlog.mutations
    /\ rlog'.rename # NoneR /\ rlog'.rename.exc = "ok"
    /\ rlog'.rename.from # rlog'.rename.to
    /\ EndsWith(rlog'.rename.to, Sep \o rlog'.step.plan.new_filename)

\* C27: within a call of show() or movie(), a file is never moved to a path
\* where a file already lies: no destination is used for two source files and
\* no file moved earlier in the call is overwritten.
C27_NoTwoMovesToOneDestination ==
    [][MovedItsFile => rlog'.rename.to \notin fs.files]_vars

\* C28: in the turn of the loop of show() for a file whose season the catalog
\* has a record of, a destination is planned only for an episode number e with
\* 1 <= e <= number of episodes of the record, under the name of the e-th
\* episode; for the episode number 0 nothing is planned and nothing is raised.
C28_EpisodeNumberIsInRange ==
    [][(/\ AtShowFile /\ rlog'.step.lookup
        /\ rlog'.step.season_info.kind = "ok"
        /\ rlog'.step.season_info.air_date # NoneV)
       => LET file == Head(rloc.files)
              info == rlog'.step.season_info
              e    == SearchSeasonEpisode(StripExtension(file))[2]
          IN  /\ rlog'.step.result = "planned" =>
                    /\ e \in 1..Len(info.episodes)
                    /\ EndsWith(rlog'.step.plan.new_filename,
                                " - " \o remove_invalid_characters(info.episodes[e])
                                      \o "." \o Extension(file))
              /\ e = 0 => (rlog'.step.result # "planned" /\ rlog'.raised = NoneV)]_vars

\* the records of the answer results that pass the filter of
\* __evaluate_results, ranked; none when the answer has no results
FilteredOf(results, original_folder_name) ==
    IF results.kind = "ok"
    THEN EvaluateLoop(<<>>, results.results, original_folder_name).potential
    ELSE <<>>

\* C29: throughout a confirm pass, the list of candidates the pass goes over is
\* the list of the filtered records of the search made right before it, which
\* is empty when that search returned an error envelope; so every candidate
\* asked about and a candidate confirmed is a record of that search.
C29_PassListIsOfItsSearch ==
    ipc \in {"confirm", "ask", "confirmed"} =>
        /\ ident.potential = FilteredOf(iloc.results, Basename(ident.item))
        /\ ilog.pass.potential = ident.potential
        /\ ident.identity # NoneR => ident.identity \in Range(ident.potential)

\* the file at path from was inside the folder item when the call started: it
\* lies where it lay, or where the move of the folder to target took it
WasInsideItem(from, item, target) ==
    \E q \in fs0.files :
        /\ Under(q, item)
        /\ \/ q = from
           \/ target \notin fs0.dirs /\ Rebase(q, item, target) = from

\* C30: every file a call of show() or movie() on a folder moves was inside
\* that folder when the call started, also when the target folder
\* "<name> (<year>)" existed beforehand: no file of that folder is moved.
C30_OnlyFilesOfTheItemAreMoved ==
    [][(MovedItsFile /\ rloc.isdir /\ rlog'.rename.from \in fs.files)
       => WasInsideItem(rlog'.rename.from, rloc.item, Norm(rloc.target))]_vars

====
